---- MODULE Spec2Model ----
(***************************************************************************)
(* Model of ejjonny/microswarm: the region quadtree of src/quadtree.rs and *)
(* the directional sensing of src/main.rs (World::get_nearby_microbes),     *)
(* Microbe::update and the tick of the world, World::update.               *)
(*                                                                         *)
(* World::update is modelled twice, as one step and in the steps of its     *)
(* loops with the functions registered with the engine; QuadTree::insert   *)
(* likewise, as one step and call by call down the tree.                   *)
(*                                                                         *)
(* Numbers.  The program computes in f32.  The model computes in integers  *)
(* on inputs for which the f32 operations are exact, and rounds where they *)
(* are not:                                                                *)
(*   - lengths are integers (hundredths for the microbes, 2^-21 for the    *)
(*     insert taken in steps), and every rectangle that is halved within   *)
(*     the bounds of the model has an even width and height (HalvingExact);*)
(*     the sums x + width of the quadtree are rounded to the 24 bits of an *)
(*     f32 (F32), which changes them from 2^24 units on;                   *)
(*   - angles are integers in tenths of a degree, so PI = 1800 and the     *)
(*     cone 0.4 * PI = 720 are exact; atan2 is rounded to that unit;       *)
(*   - energies are integers in thousandths;                               *)
(*   - sin and cos are in thousandths, exact on the four axes and within   *)
(*     0.002 elsewhere; a step is rounded to a hundredth.                  *)
(***************************************************************************)
EXTENDS Integers, Sequences, FiniteSets, TLC

VARIABLES
    qt,         \* the QuadTree under test: its root QuadTreeNode
    calls,      \* number of insert calls made so far (also the next tag)
    accepted,   \* history: the items whose insert returned true, in order, since the last take_items
    drained,    \* history: TRUE once take_items has been called
    fresh,      \* history: a tree created by QuadTree::new at the last take_items, given the same inserts since
    ret,        \* the last call on the tree: its name, arguments and return value
    sense,      \* the last call of get_nearby_microbes: its arguments and result
    tick,       \* the last call of World::update: what it read, decided, counted and committed
    upd,        \* the last call of Microbe::update: the microbe before, the controls, the microbe after
    run,        \* the call of World::update that is running: where it is, and its local variables
    engine,     \* World::engine: the functions registered with it
    ins         \* the call of QuadTree::insert that is running: where it is, and its stack

vars == <<qt, calls, accepted, drained, fresh, ret, sense, tick, upd, run, engine, ins>>

-----------------------------------------------------------------------------
(* Bounds of the model *)

MaxInserts == 4
MaxCapacity == 2
MaxMicrobes == 2
MaxUpdates == 2
MaxPopulation == 3

-----------------------------------------------------------------------------
(* quadtree.rs: Rect, Point *)

\* an f32 keeps 24 significant bits: the integers below 2^24 are exact
Significand == 16777216

RECURSIVE Ulp(_)
\* the distance between the f32 numbers at the magnitude a >= 0
Ulp(a) == IF a < Significand THEN 1 ELSE 2 * Ulp(a \div 2)

\* the f32 nearest to v, the even one of two that are equally near
F32(v) ==
    IF -Significand < v /\ v < Significand
    THEN v
    ELSE LET a == IF v < 0 THEN -v ELSE v
             u == Ulp(a)
             q == a \div u
             r == a % u
             up == IF 2 * r > u \/ (2 * r = u /\ q % 2 = 1) THEN 1 ELSE 0
         IN  (IF v < 0 THEN -1 ELSE 1) * (q + up) * u

RectNew(x, y, width, height) == [x |-> x, y |-> y, width |-> width, height |-> height]

PointNew(x, y) == [x |-> x, y |-> y]

\* variant of Intersects: rectangles that only touch do not intersect
IntersectsStrict(self, other) ==
    ~(\/ other.x >= F32(self.x + self.width)
      \/ F32(other.x + other.width) <= self.x
      \/ other.y >= F32(self.y + self.height)
      \/ F32(other.y + other.height) <= self.y)

Intersects(self, other) ==
    ~(\/ other.x > F32(self.x + self.width)
      \/ F32(other.x + other.width) < self.x
      \/ other.y > F32(self.y + self.height)
      \/ F32(other.y + other.height) < self.y)

\* variant of ContainsPoint: open on the far sides
ContainsPointHalfOpen(self, point) ==
    /\ point.x >= self.x
    /\ point.x < F32(self.x + self.width)
    /\ point.y >= self.y
    /\ point.y < F32(self.y + self.height)

ContainsPoint(self, point) ==
    /\ point.x >= self.x
    /\ point.x <= F32(self.x + self.width)
    /\ point.y >= self.y
    /\ point.y <= F32(self.y + self.height)

\* trait Locatable: the tests' Item keeps a location, a Microbe its transform
Location(data) ==
    IF "location" \in DOMAIN data
    THEN data.location
    ELSE PointNew(data.transform.position.x, data.transform.position.y)

-----------------------------------------------------------------------------
(* quadtree.rs: QuadTreeNode.  children = <<>> is None, otherwise the four *)
(* quadrants in the order NW, NE, SW, SE.                                  *)

NoChildren == << >>

QuadTreeNodeNew(bounds, capacity) ==
    [bounds |-> bounds, capacity |-> capacity, items |-> << >>, children |-> NoChildren]

\* width / 2.0
Half(w) == w \div 2

\* variant of Subdivide: the eastern quadrants start at x + width
SubdivideFullOffset(self) ==
    LET x == self.bounds.x
        y == self.bounds.y
        half_width == Half(self.bounds.width)
        half_height == Half(self.bounds.height)
    IN  [self EXCEPT !.children =
            << QuadTreeNodeNew(RectNew(x, y, half_width, half_height), self.capacity),
               QuadTreeNodeNew(RectNew(F32(x + self.bounds.width), y, half_width, half_height),
                               self.capacity),
               QuadTreeNodeNew(RectNew(x, F32(y + half_height), half_width, half_height),
                               self.capacity),
               QuadTreeNodeNew(RectNew(F32(x + self.bounds.width), F32(y + half_height),
                                       half_width, half_height),
                               self.capacity) >>]

Subdivide(self) ==
    LET x == self.bounds.x
        y == self.bounds.y
        half_width == Half(self.bounds.width)
        half_height == Half(self.bounds.height)
    IN  [self EXCEPT !.children =
            << QuadTreeNodeNew(RectNew(x, y, half_width, half_height), self.capacity),
               QuadTreeNodeNew(RectNew(F32(x + half_width), y, half_width, half_height),
                               self.capacity),
               QuadTreeNodeNew(RectNew(x, F32(y + half_height), half_width, half_height),
                               self.capacity),
               QuadTreeNodeNew(RectNew(F32(x + half_width), F32(y + half_height), half_width,
                                       half_height),
                               self.capacity) >>]

\* variant of HasRoom: a node that holds capacity items takes one more
HasRoomAtCapacity(self) == Len(self.items) <= self.capacity

\* variant of HasRoom: a node takes items up to one less than its capacity
HasRoomBelowCapacity(self) == Len(self.items) + 1 < self.capacity

\* if self.items.len() < self.capacity
HasRoom(self) == Len(self.items) < self.capacity

RECURSIVE NodeInsert(_, _)
RECURSIVE InsertIntoChildren(_, _, _)

\* the loop `for child in children.iter_mut()` from the i-th child on: the
\* first child that does not reject the item keeps it; when all four reject
\* it the loop ends and the item is dropped
InsertIntoChildren(children, data, i) ==
    IF i > 4
    THEN children
    ELSE LET r == NodeInsert(children[i], data)
         IN  IF r.rejected
             THEN InsertIntoChildren(children, data, i + 1)
             ELSE [children EXCEPT ![i] = r.node]

\* variant of NodeInsert: no test of the item's location against the bounds
NodeInsertUnchecked(self, data) ==
    IF HasRoom(self)
    THEN [node |-> [self EXCEPT !.items = Append(@, data)], rejected |-> FALSE]
    ELSE LET sub == IF self.children = NoChildren THEN Subdivide(self) ELSE self
         IN  [node |-> [sub EXCEPT !.children = InsertIntoChildren(@, data, 1)],
              rejected |-> FALSE]

\* Option<T> of the source: rejected = TRUE is Some(data), FALSE is None
NodeInsert(self, data) ==
    IF ~ContainsPoint(self.bounds, Location(data))
    THEN [node |-> self, rejected |-> TRUE]
    ELSE IF HasRoom(self)
    THEN [node |-> [self EXCEPT !.items = Append(@, data)], rejected |-> FALSE]
    ELSE LET sub == IF self.children = NoChildren THEN Subdivide(self) ELSE self
         IN  [node |-> [sub EXCEPT !.children = InsertIntoChildren(@, data, 1)],
              rejected |-> FALSE]

RECURSIVE NodeTakeItems(_)

\* variant of NodeTakeItems: takes the node's own items only
NodeTakeItemsShallow(self) ==
    [node |-> [self EXCEPT !.items = << >>], found |-> self.items]

\* returns the node left behind and the items found
NodeTakeItems(self) ==
    LET t == [i \in DOMAIN self.children |-> NodeTakeItems(self.children[i])]
        fromChildren ==
            IF self.children = NoChildren
            THEN << >>
            ELSE t[1].found \o t[2].found \o t[3].found \o t[4].found
    IN  [node  |-> [self EXCEPT !.items = << >>,
                                !.children = [i \in DOMAIN self.children |-> t[i].node]],
         found |-> fromChildren \o self.items]

RECURSIVE NodeItems(_)

\* variant of NodeItems: a subdivided node reports its children's items only
NodeItemsOfChildren(self) ==
    IF self.children = NoChildren
    THEN self.items
    ELSE NodeItems(self.children[1]) \o NodeItems(self.children[2])
         \o NodeItems(self.children[3]) \o NodeItems(self.children[4])

NodeItems(self) ==
    LET fromChildren ==
            IF self.children = NoChildren
            THEN << >>
            ELSE NodeItems(self.children[1]) \o NodeItems(self.children[2])
                 \o NodeItems(self.children[3]) \o NodeItems(self.children[4])
    IN  fromChildren \o self.items

RECURSIVE NodeQuery(_, _)

InRect(rect, item) == ContainsPoint(rect, Location(item))

NodeQuery(self, rect) ==
    IF ~Intersects(self.bounds, rect)
    THEN << >>
    ELSE LET own == SelectSeq(self.items, LAMBDA item : InRect(rect, item))
             fromChildren ==
                 IF self.children = NoChildren
                 THEN << >>
                 ELSE NodeQuery(self.children[1], rect) \o NodeQuery(self.children[2], rect)
                      \o NodeQuery(self.children[3], rect) \o NodeQuery(self.children[4], rect)
         IN  own \o fromChildren

-----------------------------------------------------------------------------
(* quadtree.rs: QuadTree.  The tree is its root node. *)

QuadTreeNew(bounds, capacity) == QuadTreeNodeNew(bounds, capacity)

QuadTreeInsert(tree, data) ==
    LET r == NodeInsert(tree, data)
    IN  [tree |-> r.node, ok |-> ~r.rejected]

QuadTreeTakeItems(tree) ==
    LET r == NodeTakeItems(tree)
    IN  [tree |-> r.node, found |-> r.found]

QuadTreeItems(tree) == NodeItems(tree)

QuadTreeQuery(tree, rect) == NodeQuery(tree, rect)

-----------------------------------------------------------------------------
(* quadtree.rs: QuadTree::insert call by call.  The calls of               *)
(* QuadTreeNode::insert that are running lie on one path down the tree:    *)
(* path holds, for each of them but the root's, the number of the child    *)
(* its caller's loop is at.  A call that returns None ends its caller's    *)
(* loop and every loop above it (return None), so one outcome is kept:     *)
(* "stored" (pushed into a node), "dropped" (a loop ended with every child *)
(* having returned Some; the node still returns None) or "rejected" (the   *)
(* root returned Some).                                                    *)

RECURSIVE NodeAt(_, _)
\* the node reached from self through the children numbered in path
NodeAt(self, path) ==
    IF path = << >> THEN self ELSE NodeAt(self.children[Head(path)], Tail(path))

RECURSIVE ReplaceAt(_, _, _)
\* self, with `node` in the place of the node reached through path
ReplaceAt(self, path, node) ==
    IF path = << >>
    THEN node
    ELSE [self EXCEPT !.children[Head(path)] = ReplaceAt(@, Tail(path), node)]

\* self.root.insert(data) has been called
Called(tree, data) ==
    [pc |-> "enter", data |-> data, path |-> << >>, outcome |-> "none", before |-> tree]

\* the call at the end of the path has returned Some(data): the root's ends
\* the insert; another's goes back to its caller's loop, which calls the next
\* child, or ends after the fourth, and then the caller returns None
ReturnedSome(call) ==
    IF call.path = << >>
    THEN [call EXCEPT !.pc = "done", !.outcome = "rejected"]
    ELSE LET i == call.path[Len(call.path)]
             caller == SubSeq(call.path, 1, Len(call.path) - 1)
         IN  IF i < 4
             THEN [call EXCEPT !.path = Append(caller, i + 1)]
             ELSE [call EXCEPT !.pc = "done", !.outcome = "dropped", !.path = caller]

\* the call at the end of the path runs from its entry to its return, or to
\* its call of insert on its first child
Entered(tree, call) ==
    LET self == NodeAt(tree, call.path)
    IN  IF ~ContainsPoint(self.bounds, Location(call.data))
        THEN [tree |-> tree, call |-> ReturnedSome(call)]
        ELSE IF HasRoom(self)
        THEN [tree |-> ReplaceAt(tree, call.path, [self EXCEPT !.items = Append(@, call.data)]),
              call |-> [call EXCEPT !.pc = "done", !.outcome = "stored"]]
        ELSE [tree |-> IF self.children = NoChildren
                       THEN ReplaceAt(tree, call.path, Subdivide(self))
                       ELSE tree,
              call |-> [call EXCEPT !.path = Append(@, 1)]]

\* the call at the end of the path is about to halve the bounds of its node
Halves(tree, call) ==
    LET self == NodeAt(tree, call.path)
    IN  /\ ContainsPoint(self.bounds, Location(call.data))
        /\ ~HasRoom(self)
        /\ self.children = NoChildren

\* width / 2.0 and height / 2.0 are whole numbers of the unit
HalvesExactly(bounds) == bounds.width % 2 = 0 /\ bounds.height % 2 = 0

-----------------------------------------------------------------------------
(* main.rs: constants.  Angles are in tenths of a degree.  The f32 lengths  *)
(* are integers in hundredths, the f32 energies integers in thousandths:   *)
(* SPEED (1.5) and ACTION_ENERGY_CONSUMPTION (0.001) are whole in them.    *)

\* the number of length units in 1.0
LengthUnit == 100

\* the number of energy units in 1.0
EnergyUnit == 1000

BOX_SIZE == 400 * LengthUnit
HEALTH == 100 * EnergyUnit
SPEED == (15 * LengthUnit) \div 10
DETECT_RANGE_FAR == 40 * LengthUnit
DETECT_RANGE_CLOSE == 10 * LengthUnit
EAT_DAMAGE == 30 * EnergyUnit
ACTION_ENERGY_CONSUMPTION == EnergyUnit \div 1000
PI == 1800
\* 1 radian
ROTATION_SPEED == 573
WorldCapacity == 10

-----------------------------------------------------------------------------
(* main.rs: Microbe and World::get_nearby_microbes *)

Vector2(x, y) == [x |-> x, y |-> y]

TransformNew(x, y, rotation) == [position |-> Vector2(x, y), rotation |-> rotation]

\* Microbe::new, given the two identifiers that Uuid::new_v4() draws
MicrobeNew(id, lineage, x, y, rotation) ==
    [id |-> id, lineage |-> lineage, transform |-> TransformNew(x, y, rotation),
     energy |-> HEALTH]

Abs(v) == IF v < 0 THEN -v ELSE v

RECURSIVE GCD(_, _)
GCD(a, b) == IF b = 0 THEN a ELSE GCD(b, a % b)

\* atan(a / b) for coprime 0 <= a, b <= 6, rounded to a tenth of a degree
AtanRatio(a, b) ==
    CASE a = 0 -> 0
      [] b = 0 -> 900
      [] a = b -> 450
      [] a = 1 /\ b = 2 -> 266   [] a = 2 /\ b = 1 -> 634
      [] a = 1 /\ b = 3 -> 184   [] a = 3 /\ b = 1 -> 716
      [] a = 1 /\ b = 4 -> 140   [] a = 4 /\ b = 1 -> 760
      [] a = 1 /\ b = 5 -> 113   [] a = 5 /\ b = 1 -> 787
      [] a = 1 /\ b = 6 -> 95    [] a = 6 /\ b = 1 -> 805
      [] a = 2 /\ b = 3 -> 337   [] a = 3 /\ b = 2 -> 563
      [] a = 2 /\ b = 5 -> 218   [] a = 5 /\ b = 2 -> 682
      [] a = 3 /\ b = 4 -> 369   [] a = 4 /\ b = 3 -> 531
      [] a = 3 /\ b = 5 -> 310   [] a = 5 /\ b = 3 -> 590
      [] a = 4 /\ b = 5 -> 387   [] a = 5 /\ b = 4 -> 513
      [] a = 5 /\ b = 6 -> 398   [] a = 6 /\ b = 5 -> 502

\* f32::atan2: the angle of (dx, dy) in (-PI, PI]; atan2(0, 0) = 0
Atan2(dy, dx) ==
    IF dx = 0 /\ dy = 0
    THEN 0
    ELSE LET g == GCD(Abs(dy), Abs(dx))
             t == AtanRatio(Abs(dy) \div g, Abs(dx) \div g)
             q == IF dx >= 0 THEN t ELSE PI - t
         IN  IF dy >= 0 THEN q ELSE -q

\* variant of GetNearbyMicrobes: only the agent itself is left out
GetNearbyMicrobesByIdOnly(microbes, id, lineage, position, angle, range) ==
    LET box == RectNew(position.x - range \div 2, position.y - range \div 2, range, range)
        keep(m) ==
            LET dx == m.transform.position.x - position.x
                dy == m.transform.position.y - position.y
            IN  /\ ~(id = m.id)
                /\ ~(dx * dx + dy * dy > range * range)
                /\ Abs(Atan2(dy, dx) - angle) % (2 * PI) < (PI * 4) \div 10
    IN  SelectSeq(QuadTreeQuery(microbes, box), keep)

\* range * 0.5 is range \div 2 (the ranges are even); distance > range is
\* compared on the squares; the cone is PI * 0.4
GetNearbyMicrobes(microbes, id, lineage, position, angle, range) ==
    LET box == RectNew(position.x - range \div 2, position.y - range \div 2, range, range)
        keep(m) ==
            LET dx == m.transform.position.x - position.x
                dy == m.transform.position.y - position.y
                angle_to == Atan2(dy, dx)
                angle_diff == Abs(angle_to - angle) % (2 * PI)
                cone == (PI * 4) \div 10
            IN  /\ ~(id = m.id \/ lineage = m.lineage)
                /\ ~(dx * dx + dy * dy > range * range)
                /\ angle_diff < cone
    IN  SelectSeq(QuadTreeQuery(microbes, box), keep)

\* placeholders for a call without a microbe, and for no sensing call yet
NoMicrobe == MicrobeNew(0, 0, 0, 0, 0)

NoSense ==
    [kind |-> "none", id |-> 0, lineage |-> 0, position |-> Vector2(0, 0), heading |-> 0,
     direction |-> "none", angle |-> 0, range |-> 0, result |-> << >>, target |-> NoMicrobe]

-----------------------------------------------------------------------------
(* main.rs: Controls and Microbe::update *)

Controls(right, left, forward, back, eat) ==
    [right |-> right, left |-> left, forward |-> forward, back |-> back, eat |-> eat]

\* Controls::new
ControlsNew == Controls(FALSE, FALSE, FALSE, FALSE, FALSE)

\* f32 `%`: the remainder has the sign of the dividend
Rem(a, b) == IF a >= 0 THEN a % b ELSE -((-a) % b)

\* n / d rounded to the nearest integer, for d > 0
RoundDiv(n, d) ==
    IF n >= 0 THEN (2 * n + d) \div (2 * d) ELSE -((2 * (-n) + d) \div (2 * d))

\* f32::sin in thousandths, of an angle in tenths of a degree
\* (4 p / (4050000 - p) with p = a (1800 - a) on the half turn 0..1800)
SinMilli(angle) ==
    LET a == angle % (2 * PI)
        h == IF a >= PI THEN a - PI ELSE a
        p == h * (PI - h)
        v == RoundDiv(40 * p, RoundDiv(4050000 - p, 100))
    IN  IF a >= PI THEN -v ELSE v

\* f32::cos in thousandths
CosMilli(angle) == SinMilli(angle + PI \div 2)

\* rotation.cos() * speed and rotation.sin() * speed
StepX(rotation, speed) == RoundDiv(CosMilli(rotation) * speed, 1000)

StepY(rotation, speed) == RoundDiv(SinMilli(rotation) * speed, 1000)

\* variant of MicrobeUpdate: the microbe turns before it moves, and moves
\* along the heading it has turned to
MicrobeUpdateTurnFirst(self, controls) ==
    LET speed == SPEED
        energy1 == self.energy - ACTION_ENERGY_CONSUMPTION
        position0 == self.transform.position
        rotation_speed == ROTATION_SPEED
        rotation1 ==
            IF controls.right
            THEN self.transform.rotation + rotation_speed
            ELSE self.transform.rotation
        rotation2 == IF controls.left THEN rotation1 - rotation_speed ELSE rotation1
        position1 ==
            IF controls.forward
            THEN Vector2(position0.x + StepX(rotation2, speed),
                         position0.y + StepY(rotation2, speed))
            ELSE IF controls.back
                 THEN Vector2(position0.x - StepX(rotation2, speed),
                              position0.y - StepY(rotation2, speed))
                 ELSE position0
        energy2 == IF controls.eat THEN energy1 - ACTION_ENERGY_CONSUMPTION ELSE energy1
    IN  [self EXCEPT !.transform = [position |-> position1,
                                    rotation |-> Rem(rotation2, 2 * PI)],
                     !.energy = energy2]

\* Microbe::update
MicrobeUpdate(self, controls) ==
    LET speed == SPEED
        energy1 == self.energy - ACTION_ENERGY_CONSUMPTION
        rotation0 == self.transform.rotation
        position0 == self.transform.position
        position1 ==
            IF controls.forward
            THEN Vector2(position0.x + StepX(rotation0, speed),
                         position0.y + StepY(rotation0, speed))
            ELSE IF controls.back
                 THEN Vector2(position0.x - StepX(rotation0, speed),
                              position0.y - StepY(rotation0, speed))
                 ELSE position0
        rotation_speed == ROTATION_SPEED
        rotation1 == IF controls.right THEN rotation0 + rotation_speed ELSE rotation0
        rotation2 == IF controls.left THEN rotation1 - rotation_speed ELSE rotation1
        energy2 == IF controls.eat THEN energy1 - ACTION_ENERGY_CONSUMPTION ELSE energy1
    IN  [self EXCEPT !.transform = [position |-> position1,
                                    rotation |-> Rem(rotation2, 2 * PI)],
                     !.energy = energy2]

\* placeholder for no call of Microbe::update yet
NoUpdate ==
    [called |-> FALSE, before |-> NoMicrobe, controls |-> ControlsNew, after |-> NoMicrobe]

-----------------------------------------------------------------------------
(* main.rs: World::update, one tick.  The HashMaps `microbes`, `eaten` and *)
(* `ate` are functions on the ids; a count of 0 is an absent key (a key is *)
(* only ever inserted with a count of at least 1).  The order in which a   *)
(* HashMap is iterated is an argument.                                     *)

\* the fold of the drained items into `microbes`: a later item replaces an
\* earlier one of the same id
MicrobesById(items) ==
    [id \in { items[i].id : i \in DOMAIN items } |->
        LET last == CHOOSE i \in DOMAIN items :
                        /\ items[i].id = id
                        /\ \A j \in DOMAIN items : items[j].id = id => j <= i
        IN  items[last]]

\* the four sensing directions of World::update, as offsets of the heading
Directions ==
    [forward |-> 0, left |-> -(PI \div 2), right |-> PI \div 2, back |-> PI]

\* variant of EdibleIds: only the microbe itself is left out, its kin is not
EdibleIdsOfKinToo(frozen, microbe) ==
    LET front_close == GetNearbyMicrobesByIdOnly(frozen, microbe.id, microbe.lineage,
                                                 microbe.transform.position,
                                                 microbe.transform.rotation,
                                                 DETECT_RANGE_CLOSE)
    IN  [i \in DOMAIN front_close |-> front_close[i].id]

\* the ids of front_close: whom the microbe can eat
EdibleIds(frozen, microbe) ==
    LET front_close == GetNearbyMicrobes(frozen, microbe.id, microbe.lineage,
                                         microbe.transform.position,
                                         microbe.transform.rotation, DETECT_RANGE_CLOSE)
    IN  [i \in DOMAIN front_close |-> front_close[i].id]

\* the result of engine.eval::<Controls>: Ok(controls) or Err
EvalOk(controls) == [ok |-> TRUE, controls |-> controls]

EvalErr == [ok |-> FALSE, controls |-> ControlsNew]

Bump(count, id) == [count EXCEPT ![id] = @ + 1]

RECURSIVE EatEdibles(_, _, _, _, _)

\* variant of EatEdibles: an eater of equal energy is eaten too
EatEdiblesOnTie(counts, id, i, microbes, microbe_controls) ==
    LET edible_ids == microbe_controls[id].edible_ids
    IN  IF i > Len(edible_ids)
        THEN counts
        ELSE LET edible == edible_ids[i]
                 consumed ==
                     IF edible \in DOMAIN microbe_controls
                     THEN IF microbe_controls[edible].controls.eat
                          THEN microbes[id].energy >= microbes[edible].energy
                          ELSE TRUE
                     ELSE FALSE
                 next == IF consumed
                         THEN [eaten |-> Bump(counts.eaten, edible),
                               ate |-> Bump(counts.ate, id)]
                         ELSE counts
             IN  EatEdibles(next, id, i + 1, microbes, microbe_controls)

\* variant of EatEdibles: a microbe that has been eaten by the time its turn
\* comes does not eat
EatEdiblesIfUneaten(counts, id, i, microbes, microbe_controls) ==
    LET edible_ids == microbe_controls[id].edible_ids
    IN  IF i > Len(edible_ids) \/ counts.eaten[id] > 0
        THEN counts
        ELSE LET edible == edible_ids[i]
                 consumed ==
                     IF edible \in DOMAIN microbe_controls
                     THEN IF microbe_controls[edible].controls.eat
                          THEN microbes[id].energy > microbes[edible].energy
                          ELSE TRUE
                     ELSE FALSE
                 next == IF consumed
                         THEN [eaten |-> Bump(counts.eaten, edible),
                               ate |-> Bump(counts.ate, id)]
                         ELSE counts
             IN  EatEdibles(next, id, i + 1, microbes, microbe_controls)

\* the inner loop of the eating resolution: `id` eats, from its i-th edible on
EatEdibles(counts, id, i, microbes, microbe_controls) ==
    LET edible_ids == microbe_controls[id].edible_ids
    IN  IF i > Len(edible_ids)
        THEN counts
        ELSE LET edible == edible_ids[i]
                 consumed ==
                     IF edible \in DOMAIN microbe_controls
                     THEN IF microbe_controls[edible].controls.eat
                          THEN microbes[id].energy > microbes[edible].energy
                          ELSE TRUE
                     ELSE FALSE
                 next == IF consumed
                         THEN [eaten |-> Bump(counts.eaten, edible),
                               ate |-> Bump(counts.ate, id)]
                         ELSE counts
             IN  EatEdibles(next, id, i + 1, microbes, microbe_controls)

RECURSIVE ResolveEating(_, _, _, _, _)

\* variant of ResolveEating: prey that one eater has eaten is left alone by
\* the eaters after it
ResolveEatingOnce(counts, order, i, microbes, microbe_controls) ==
    IF i > Len(order)
    THEN counts
    ELSE LET id == order[i]
             bites == EatEdibles(counts, id, 1, microbes, microbe_controls)
             next == IF microbe_controls[id].controls.eat
                        /\ \A prey \in DOMAIN counts.eaten :
                               counts.eaten[prey] > 0 => bites.eaten[prey] = counts.eaten[prey]
                     THEN bites
                     ELSE counts
         IN  ResolveEating(next, order, i + 1, microbes, microbe_controls)

\* the eating resolution, over microbe_controls in the order given
ResolveEating(counts, order, i, microbes, microbe_controls) ==
    IF i > Len(order)
    THEN counts
    ELSE LET id == order[i]
             next == IF microbe_controls[id].controls.eat
                     THEN EatEdibles(counts, id, 1, microbes, microbe_controls)
                     ELSE counts
         IN  ResolveEating(next, order, i + 1, microbes, microbe_controls)

\* f32::clamp
Clamp(v, min, max) == IF v < min THEN min ELSE IF v > max THEN max ELSE v

\* variant of ClampToBox: the position is left as the update made it
ClampToBoxNot(microbe) == microbe

\* position.x.clamp(-BOX_SIZE, BOX_SIZE), and the same for y
ClampToBox(microbe) ==
    [microbe EXCEPT !.transform.position =
                        Vector2(Clamp(@.x, -BOX_SIZE, BOX_SIZE),
                                Clamp(@.y, -BOX_SIZE, BOX_SIZE))]

\* variant of AdjustEnergy: the reward is EAT_DAMAGE for each microbe eaten
AdjustEnergyPerBite(microbe, counts) ==
    LET rewarded ==
            IF counts.ate[microbe.id] > 0
            THEN [microbe EXCEPT !.energy = @ + counts.ate[microbe.id] * EAT_DAMAGE]
            ELSE microbe
    IN  IF counts.eaten[microbe.id] > 0
        THEN [rewarded EXCEPT !.energy = @ - counts.eaten[microbe.id] * EAT_DAMAGE]
        ELSE rewarded

\* the reward of a microbe that ate and the damage of a microbe that was eaten
AdjustEnergy(microbe, counts) ==
    LET rewarded ==
            IF counts.ate[microbe.id] > 0
            THEN [microbe EXCEPT !.energy = @ + EAT_DAMAGE]
            ELSE microbe
    IN  IF counts.eaten[microbe.id] > 0
        THEN [rewarded EXCEPT !.energy = @ - counts.eaten[microbe.id] * EAT_DAMAGE]
        ELSE rewarded

\* variant of Procreates: the energy has to exceed 2 * HEALTH
ProcreatesAbove(microbe) == microbe.energy > HEALTH + HEALTH

\* the test of the PROCREATE branch
Procreates(microbe) == microbe.energy >= HEALTH + HEALTH

\* variant of Offspring: a child founds a lineage of its own
OffspringOfNewLineage(parent, next_id) ==
    [k \in 1..4 |->
        [parent EXCEPT !.id = next_id + k, !.lineage = next_id + k, !.energy = HEALTH \div 4]]

\* the four children of the PROCREATE branch: clones of the parent, as it is
\* after it has paid HEALTH, but for a new id and the energy HEALTH * 0.25;
\* next_id is the number of ids issued so far, Uuid::new_v4 issues the next
Offspring(parent, next_id) ==
    [k \in 1..4 |-> [parent EXCEPT !.id = next_id + k, !.energy = HEALTH \div 4]]

\* variant of Inserts: a microbe whose energy is exactly 0 is inserted too
InsertsAtZero(parent, children) ==
    IF parent.energy >= 0 THEN Append(children, parent) ELSE children

\* variant of Inserts: a microbe that procreated is not inserted itself
InsertsOffspringOnly(parent, children) ==
    IF parent.energy > 0 /\ children = << >> THEN Append(children, parent) ELSE children

\* what the apply loop inserts into `result` for one microbe, in this order:
\* its children, and the microbe itself unless it is dead
Inserts(parent, children) ==
    IF parent.energy > 0 THEN Append(children, parent) ELSE children

\* the microbe after the PROCREATE branch: it has paid HEALTH if it procreates
Parent(applied) ==
    IF Procreates(applied) THEN [applied EXCEPT !.energy = @ - HEALTH] ELSE applied

\* what the apply loop has done to one microbe: the microbe as updated by
\* its controls, as clamped, rewarded and damaged, as it is after the
\* PROCREATE branch, its children, and what is inserted
ApplyStep(updated, applied, parent, children) ==
    [id |-> updated.id, updated |-> updated, applied |-> applied, parent |-> parent,
     children |-> children, inserts |-> Inserts(parent, children)]

\* the PROCREATE branch and the insertion, for a microbe as clamped, rewarded
\* and damaged
ApplyProcreate(updated, applied, parent, next_id) ==
    ApplyStep(updated, applied, parent,
              IF Procreates(applied) THEN Offspring(parent, next_id) ELSE << >>)

\* the body of the apply loop from the clamp on, for a microbe as updated
ApplyUpdated(updated, applied, next_id) ==
    ApplyProcreate(updated, applied, Parent(applied), next_id)

\* the body of the apply loop for one microbe: it is updated by its controls,
\* clamped to the box, rewarded and damaged; it procreates; it is inserted
ApplyMicrobe(microbe, microbe_controls, counts, next_id) ==
    LET updated ==
            IF microbe.id \in DOMAIN microbe_controls
            THEN MicrobeUpdate(microbe, microbe_controls[microbe.id].controls)
            ELSE microbe
    IN  ApplyUpdated(updated, AdjustEnergy(ClampToBox(updated), counts), next_id)

\* result.insert(item) has returned r; what insert returns is not looked at
AfterInsert(acc, item, r) ==
    [acc EXCEPT !.result = r.tree,
                !.inserted = IF r.ok THEN Append(@, item) ELSE @,
                !.refused = IF r.ok THEN @ ELSE Append(@, item)]

RECURSIVE InsertAll(_, _, _)
\* result.insert for each of the items, from the i-th on
InsertAll(acc, items, i) ==
    IF i > Len(items)
    THEN acc
    ELSE InsertAll(AfterInsert(acc, items[i], QuadTreeInsert(acc.result, items[i])),
                   items, i + 1)

\* the apply loop has made a step: the ids of the children are issued, and
\* the children and the microbe are inserted
AfterStep(acc, step) ==
    InsertAll([acc EXCEPT !.next_id = @ + Len(step.children), !.steps = Append(@, step)],
              step.inserts, 1)

RECURSIVE ApplyAll(_, _, _, _, _, _)
\* the apply loop over `microbes` in the order given, from the i-th on
ApplyAll(acc, order, i, microbes, microbe_controls, counts) ==
    IF i > Len(order)
    THEN acc
    ELSE ApplyAll(AfterStep(acc, ApplyMicrobe(microbes[order[i]], microbe_controls, counts,
                                              acc.next_id)),
                  order, i + 1, microbes, microbe_controls, counts)

\* what a call of World::update leaves to look at: how it ended, the
\* microbes it read, what the evaluations of their scripts returned, the
\* order of the apply loop, what was decided and counted, the steps of the
\* apply loop, and the inserts that were refused
TickRecord(status, failed, microbes, evals, order, controls, counts, steps, refused) ==
    [status |-> status, failed |-> failed, microbes |-> microbes, evals |-> evals,
     order |-> order, microbe_controls |-> controls,
     eaten |-> counts.eaten, ate |-> counts.ate, steps |-> steps, refused |-> refused]

NoCounts == [eaten |-> << >>, ate |-> << >>]

\* placeholder for no call of World::update yet
NoTick == TickRecord("none", 0, << >>, << >>, << >>, << >>, NoCounts, << >>, << >>)

\* variant of FirstErr: an evaluation that returns Err is passed over
FirstErrPassedOver(evals, order) == 0

\* .expect("msg"): the id of the first microbe, in the order of the loop,
\* whose evaluation returns Err, at which the call panics; 0 if there is none
FirstErr(evals, order) ==
    LET failing == { i \in DOMAIN order : ~evals[order[i]].ok }
    IN  IF failing = {}
        THEN 0
        ELSE order[CHOOSE i \in failing : \A j \in failing : i <= j]

\* the end of World::update in a panic: self.microbes is left drained
Panic(emptied, failed, microbes, evals, next_id) ==
    [tick |-> TickRecord("panicked", failed, microbes, evals, << >>, << >>, NoCounts, << >>,
                         << >>),
     world |-> emptied, inserted |-> << >>, next_id |-> next_id]

\* the end of World::update: self.microbes = result
Commit(microbes, evals, order, microbe_controls, counts, applied) ==
    [tick |-> TickRecord("committed", 0, microbes, evals, order, microbe_controls, counts,
                         applied.steps, applied.refused),
     world |-> applied.result, inserted |-> applied.inserted, next_id |-> applied.next_id]

\* World::update from the apply loop on
Apply(result, microbes, evals, order, microbe_controls, counts, next_id) ==
    Commit(microbes, evals, order, microbe_controls, counts,
           ApplyAll([result |-> result, inserted |-> << >>, refused |-> << >>,
                     next_id |-> next_id, steps |-> << >>],
                    order, 1, microbes, microbe_controls, counts))

\* World::update from the eating resolution on
Resolve(result, microbes, evals, order, order2, microbe_controls, next_id) ==
    Apply(result, microbes, evals, order, microbe_controls,
          ResolveEating([eaten |-> [id \in DOMAIN microbes |-> 0],
                         ate |-> [id \in DOMAIN microbes |-> 0]],
                        order2, 1, microbes, microbe_controls),
          next_id)

\* World::update from the loop over `microbes` on, in which every microbe
\* senses the frozen index and its script is evaluated
Decide(frozen, emptied, microbes, evals, order, order2, next_id) ==
    IF FirstErr(evals, order) # 0
    THEN Panic(emptied, FirstErr(evals, order), microbes, evals, next_id)
    ELSE Resolve(QuadTreeNew(frozen.bounds, frozen.capacity), microbes, evals, order, order2,
                 [id \in DOMAIN microbes |->
                     [controls |-> evals[id].controls,
                      edible_ids |-> EdibleIds(frozen, microbes[id])]],
                 next_id)

\* World::update from take_items on
Drain(frozen, taken, evals, order, order2, next_id) ==
    Decide(frozen, taken.tree, MicrobesById(taken.found), evals, order, order2, next_id)

\* World::update.  evals gives, for each id, what the evaluation of the
\* script of that microbe returns; order is the order of iteration of
\* `microbes`, order2 that of `microbe_controls`; next_id is the number of
\* ids issued so far.  The call ends in a panic at the first evaluation that
\* returns Err (.expect), and otherwise commits `result`.
WorldUpdate(world_microbes, evals, order, order2, next_id) ==
    Drain(world_microbes, QuadTreeTakeItems(world_microbes), evals, order, order2, next_id)

-----------------------------------------------------------------------------
(* main.rs: World::update in steps.  `run` holds where the call is and its   *)
(* local variables: the clone `frozen`, the map `microbes`, the order in    *)
(* which it is iterated and the index i of the microbe the loop is at, the  *)
(* values the closures of that microbe capture, `microbe_controls`, the     *)
(* counts `eaten` and `ate`, and `result` with what was inserted into it.   *)
(* History: the index as it was before the call, what every evaluation      *)
(* returned, and what it could observe through the engine.                  *)

\* the names under which World::update registers functions with the engine,
\* in the order in which it registers them
FnNames ==
    << "sense_front_close", "sense_left_close", "sense_right_close", "sense_back_close",
       "sense_front", "sense_left", "sense_right", "sense_back", "energy" >>

\* Engine::new: none of the names is registered
NoEngine ==
    [name \in { FnNames[i] : i \in DOMAIN FnNames } |-> [registered |-> FALSE, value |-> 0]]

\* variant of RegisterFn: a name that is registered keeps its function
RegisterFnOnce(functions, name, value) ==
    IF functions[name].registered
    THEN functions
    ELSE [functions EXCEPT ![name] = [registered |-> TRUE, value |-> value]]

\* self.engine.register_fn(name, move || value): the function registered
\* under the name, with no parameters, is from now on the closure given
RegisterFn(functions, name, value) ==
    [functions EXCEPT ![name] = [registered |-> TRUE, value |-> value]]

\* get_nearby_microbes(...).len() for a direction and a range
SenseCount(frozen, microbe, direction, range) ==
    Len(GetNearbyMicrobes(frozen, microbe.id, microbe.lineage, microbe.transform.position,
                          microbe.transform.rotation + Directions[direction], range))

\* the values that the closures made for a microbe capture: the eight
\* sensing counts and its energy
Closures(frozen, microbe) ==
    [sense_front_close |-> Len(EdibleIds(frozen, microbe)),
     sense_left_close |-> SenseCount(frozen, microbe, "left", DETECT_RANGE_CLOSE),
     sense_right_close |-> SenseCount(frozen, microbe, "right", DETECT_RANGE_CLOSE),
     sense_back_close |-> SenseCount(frozen, microbe, "back", DETECT_RANGE_CLOSE),
     sense_front |-> SenseCount(frozen, microbe, "forward", DETECT_RANGE_FAR),
     sense_left |-> SenseCount(frozen, microbe, "left", DETECT_RANGE_FAR),
     sense_right |-> SenseCount(frozen, microbe, "right", DETECT_RANGE_FAR),
     sense_back |-> SenseCount(frozen, microbe, "back", DETECT_RANGE_FAR),
     energy |-> microbe.energy]

RECURSIVE RegisterAll(_, _, _)
\* the nine calls of register_fn, from the i-th on
RegisterAll(functions, closures, i) ==
    IF i > Len(FnNames)
    THEN functions
    ELSE RegisterAll(RegisterFn(functions, FnNames[i], closures[FnNames[i]]), closures, i + 1)

\* what a script evaluated by the engine gets from the functions it can call
Observed(functions) == [name \in DOMAIN functions |-> functions[name].value]

\* a function extended or changed at one argument (HashMap::insert)
MapInsert(map, key, value) ==
    [k \in DOMAIN map \cup {key} |-> IF k = key THEN value ELSE map[k]]

\* no call of World::update is running
NoRun ==
    [pc |-> "idle", before |-> QuadTreeNew(RectNew(0, 0, 0, 0), 0),
     frozen |-> QuadTreeNew(RectNew(0, 0, 0, 0), 0), microbes |-> << >>, order |-> << >>,
     i |-> 0, closures |-> << >>, edible_ids |-> << >>, observed |-> << >>, evals |-> << >>,
     microbe_controls |-> << >>, order2 |-> << >>, counts |-> NoCounts,
     acc |-> [result |-> QuadTreeNew(RectNew(0, 0, 0, 0), 0), inserted |-> << >>,
              refused |-> << >>, next_id |-> 0, steps |-> << >>]]

\* variant of LoopEnds: the loop is left after its first iteration
LoopEndsAtOnce(order, i) == TRUE

\* `for microbe in microbes.values()` has no microbe after the i-th
LoopEnds(order, i) == i >= Len(order)

\* the call has cloned self.microbes, drained it into `microbes` and made
\* an empty `result`; next_id is the number of ids issued so far
Begun(world_microbes, taken, order, next_id) ==
    [NoRun EXCEPT !.pc = IF order = << >> THEN "resolve" ELSE "sense",
                  !.before = world_microbes,
                  !.frozen = world_microbes,
                  !.microbes = MicrobesById(taken.found),
                  !.order = order,
                  !.i = 1,
                  !.acc = [result |-> QuadTreeNew(world_microbes.bounds, world_microbes.capacity),
                           inserted |-> << >>, refused |-> << >>, next_id |-> next_id,
                           steps |-> << >>]]

\* the microbe the loop is at
Current(r) == r.microbes[r.order[r.i]]

\* the nine sensing calls for the microbe the loop is at, and its energy
Sensed(r) ==
    [r EXCEPT !.pc = "register",
              !.closures = Closures(r.frozen, Current(r)),
              !.edible_ids = EdibleIds(r.frozen, Current(r))]

\* the evaluation of the script of the microbe the loop is at has returned
\* `result`, having had `observed` to observe: on Err the call panics, on Ok
\* the controls and the ids of front_close are recorded
Evaluated(r, id, result, observed) ==
    [r EXCEPT !.observed = MapInsert(@, id, observed),
              !.evals = MapInsert(@, id, result),
              !.microbe_controls =
                  IF result.ok
                  THEN MapInsert(@, id, [controls |-> result.controls,
                                         edible_ids |-> r.edible_ids])
                  ELSE @,
              !.i = IF result.ok THEN @ + 1 ELSE @,
              !.pc = IF ~result.ok
                     THEN "panicked"
                     ELSE IF LoopEnds(r.order, r.i) THEN "resolve" ELSE "sense"]

\* the eating resolution, over microbe_controls in the order order2
Resolved(r, order2) ==
    [r EXCEPT !.pc = "apply",
              !.i = 1,
              !.order2 = order2,
              !.counts = ResolveEating([eaten |-> [id \in DOMAIN r.microbes |-> 0],
                                        ate |-> [id \in DOMAIN r.microbes |-> 0]],
                                       order2, 1, r.microbes, r.microbe_controls)]

\* one iteration of the apply loop
Applied(r) ==
    [r EXCEPT !.i = @ + 1,
              !.acc = AfterStep(@, ApplyMicrobe(Current(r), r.microbe_controls, r.counts,
                                                r.acc.next_id))]

-----------------------------------------------------------------------------
(* The quadtree under its public operations (quadtree.rs:177-199), driven  *)
(* as the tests of quadtree.rs drive it: items are created with a tag and  *)
(* a location and inserted; the tree is queried, enumerated and drained.   *)

\* tests::create_item
CreateItem(tag, x, y) == [tag |-> tag, location |-> PointNew(x, y)]

\* the bounds given to QuadTree::new; every halving down to width 1 is exact
RootBounds == RectNew(-8, -8, 16, 16)

\* locations offered to insert: a cluster of two, the centre (on the shared
\* corner of the four quadrants), the far corner, and a location outside
Locations ==
    { PointNew(-6, -6), PointNew(-5, -5), PointNew(0, 0), PointNew(8, 8), PointNew(9, 0) }

\* rectangles offered to query: the root, its zero-width right edge, its
\* zero-height bottom edge, a tight box around the cluster, and the NE
\* quadrant widened beyond the root
QueryRects ==
    { RootBounds, RectNew(8, -8, 0, 16), RectNew(-8, 8, 16, 0), RectNew(-7, -7, 3, 3),
      RectNew(0, -9, 9, 9) }

NoItem == CreateItem(0, 0, 0)
NoRect == RectNew(0, 0, 0, 0)

\* no call of QuadTree::insert is running
NoInsert ==
    [pc |-> "idle", data |-> NoItem, path |-> << >>, outcome |-> "none",
     before |-> QuadTreeNew(NoRect, 0)]

Call(op, data, rect, ok, result) ==
    [op |-> op, data |-> data, rect |-> rect, ok |-> ok, result |-> result]

Init ==
    \E capacity \in 1..MaxCapacity :
        /\ qt = QuadTreeNew(RootBounds, capacity)
        /\ fresh = QuadTreeNew(RootBounds, capacity)
        /\ calls = 0
        /\ accepted = << >>
        /\ drained = FALSE
        /\ ret = Call("new", NoItem, RootBounds, TRUE, << >>)
        /\ sense = NoSense
        /\ tick = NoTick
        /\ upd = NoUpdate
        /\ run = NoRun
        /\ engine = NoEngine
        /\ ins = NoInsert

Insert(p) ==
    /\ calls < MaxInserts
    /\ LET data == CreateItem(calls + 1, p.x, p.y)
           r == QuadTreeInsert(qt, data)
       IN  /\ qt' = r.tree
           /\ fresh' = QuadTreeInsert(fresh, data).tree
           /\ accepted' = IF r.ok THEN Append(accepted, data) ELSE accepted
           /\ ret' = Call("insert", data, NoRect, r.ok, << >>)
    /\ calls' = calls + 1
    /\ UNCHANGED <<drained, sense, tick, upd, run, engine, ins>>

TakeItems ==
    /\ LET r == QuadTreeTakeItems(qt)
       IN  /\ qt' = r.tree
           /\ ret' = Call("take_items", NoItem, NoRect, TRUE, r.found)
    /\ fresh' = QuadTreeNew(qt.bounds, qt.capacity)
    /\ accepted' = << >>
    /\ drained' = TRUE
    /\ UNCHANGED <<calls, sense, tick, upd, run, engine, ins>>

Items ==
    /\ ret' = Call("items", NoItem, NoRect, TRUE, QuadTreeItems(qt))
    /\ UNCHANGED <<qt, calls, accepted, drained, fresh, sense, tick, upd, run, engine, ins>>

Query(rect) ==
    /\ ret' = Call("query", NoItem, rect, TRUE, QuadTreeQuery(qt, rect))
    /\ UNCHANGED <<qt, calls, accepted, drained, fresh, sense, tick, upd, run, engine, ins>>

Next ==
    \/ \E p \in Locations : Insert(p)
    \/ TakeItems
    \/ Items
    \/ \E rect \in QueryRects : Query(rect)

Spec == Init /\ [][Next]_vars

-----------------------------------------------------------------------------
(* Sensing.  The index is either the world's (World::new), filled by       *)
(* add_microbe and by the insertions of World::update, and sensed as       *)
(* World::update senses it, or the index of tests::test_get_nearby_microbes *)

WorldBounds == RectNew(-BOX_SIZE, -BOX_SIZE, BOX_SIZE * 2, BOX_SIZE * 2)

\* Rect::new(-3., -3., 3., 3.)
TestBounds == RectNew(-3 * LengthUnit, -3 * LengthUnit, 3 * LengthUnit, 3 * LengthUnit)

\* positions of the world's microbes: on a line ahead of the origin at
\* distances 4, 8 and 24, and one beside it
Positions ==
    { Vector2(0, 0), Vector2(4 * LengthUnit, 0), Vector2(8 * LengthUnit, 0),
      Vector2(24 * LengthUnit, 0), Vector2(0, 4 * LengthUnit) }

Rotations == { 0, PI \div 2 }

Ranges == { DETECT_RANGE_CLOSE, DETECT_RANGE_FAR }

\* the four assert_detected calls of the test, in their order
TestCalls ==
    << [angle |-> 0, x |-> LengthUnit, y |-> 0],
       [angle |-> PI, x |-> -LengthUnit, y |-> 0],
       [angle |-> PI \div 2, x |-> 0, y |-> LengthUnit],
       [angle |-> -(PI \div 2), x |-> 0, y |-> -LengthUnit] >>

InitSense ==
    /\ qt \in { QuadTreeNew(WorldBounds, WorldCapacity), QuadTreeNew(TestBounds, WorldCapacity) }
    /\ fresh = qt
    /\ calls = 0
    /\ accepted = << >>
    /\ drained = FALSE
    /\ ret = Call("new", NoMicrobe, qt.bounds, TRUE, << >>)
    /\ sense = NoSense
    /\ tick = NoTick
    /\ upd = NoUpdate
    /\ run = NoRun
    /\ engine = NoEngine
    /\ ins = NoInsert

\* a microbe enters the world's index: created by add_microbe with a lineage
\* of its own, or inserted by World::update as the offspring of a parent
\* whose lineage it keeps
\* (a sensing call reads one index; the record of the last call, made on the
\* index as it was, is dropped)
AddMicrobe(position, rotation, lineage) ==
    /\ qt.bounds = WorldBounds
    /\ calls < MaxMicrobes
    /\ LET microbe == MicrobeNew(calls + 1, lineage, position.x, position.y, rotation)
           r == QuadTreeInsert(qt, microbe)
       IN  /\ qt' = r.tree
           /\ accepted' = IF r.ok THEN Append(accepted, microbe) ELSE accepted
           /\ ret' = Call("insert", microbe, NoRect, r.ok, << >>)
    /\ calls' = calls + 1
    /\ sense' = NoSense
    /\ UNCHANGED <<drained, fresh, tick, upd, run, engine, ins>>

\* one of the eight sensing calls World::update makes for a microbe
SenseFromMicrobe(microbe, direction, range) ==
    /\ qt.bounds = WorldBounds
    /\ LET angle == microbe.transform.rotation + Directions[direction]
       IN  sense' =
               [kind |-> "update", id |-> microbe.id, lineage |-> microbe.lineage,
                position |-> microbe.transform.position,
                heading |-> microbe.transform.rotation, direction |-> direction,
                angle |-> angle, range |-> range,
                result |-> GetNearbyMicrobes(qt, microbe.id, microbe.lineage,
                                             microbe.transform.position, angle, range),
                target |-> NoMicrobe]
    /\ UNCHANGED <<qt, calls, accepted, drained, fresh, ret, tick, upd, run, engine, ins>>

\* the next assert_detected call of the test; a failed assertion ends the test
AssertDetected ==
    /\ qt.bounds = TestBounds
    /\ calls < Len(TestCalls)
    /\ sense.kind = "test" => \E i \in DOMAIN sense.result : sense.result[i] = sense.target
    /\ LET c == TestCalls[calls + 1]
           m == MicrobeNew(calls + 1, calls + 1, c.x, c.y, 0)
           position == Vector2(0, 0)
           range == 10 * LengthUnit
           r == QuadTreeInsert(qt, m)
       IN  /\ qt' = r.tree
           /\ accepted' = IF r.ok THEN Append(accepted, m) ELSE accepted
           /\ ret' = Call("insert", m, NoRect, r.ok, << >>)
           /\ sense' =
                  [kind |-> "test", id |-> 0, lineage |-> 0, position |-> position,
                   heading |-> 0, direction |-> "none", angle |-> c.angle, range |-> range,
                   result |-> GetNearbyMicrobes(r.tree, 0, 0, position, c.angle, range),
                   target |-> m]
    /\ calls' = calls + 1
    /\ UNCHANGED <<drained, fresh, tick, upd, run, engine, ins>>

NextSense ==
    \/ \E position \in Positions, rotation \in Rotations :
           \E lineage \in { m.lineage : m \in { accepted[i] : i \in DOMAIN accepted } }
                           \cup { calls + 1 } :
               AddMicrobe(position, rotation, lineage)
    \/ \E i \in DOMAIN accepted, direction \in DOMAIN Directions, range \in Ranges :
           SenseFromMicrobe(accepted[i], direction, range)
    \/ AssertDetected

SpecSense == InitSense /\ [][NextSense]_vars

-----------------------------------------------------------------------------
(* Microbe::update on its own: a microbe made by Microbe::new is updated   *)
(* with any Controls, up to MaxUpdates times.                              *)

\* headings given to Microbe::new (main draws them from 0.0..=2 PI): on an
\* axis, and one that a right turn carries over the full turn
NewRotations == { 0, PI \div 2, 3400 }

\* positions given to Microbe::new
NewPositions == { Vector2(0, 0), Vector2(-399 * LengthUnit, 399 * LengthUnit) }

AllControls ==
    { Controls(right, left, forward, back, eat) :
          right \in BOOLEAN, left \in BOOLEAN, forward \in BOOLEAN, back \in BOOLEAN,
          eat \in BOOLEAN }

InitMicrobe ==
    /\ qt = QuadTreeNew(WorldBounds, WorldCapacity)
    /\ fresh = qt
    /\ calls = 0
    /\ accepted = << >>
    /\ drained = FALSE
    /\ ret = Call("new", NoMicrobe, qt.bounds, TRUE, << >>)
    /\ sense = NoSense
    /\ tick = NoTick
    /\ run = NoRun
    /\ engine = NoEngine
    /\ ins = NoInsert
    /\ \E position \in NewPositions, rotation \in NewRotations :
           upd = [called |-> FALSE, before |-> NoMicrobe, controls |-> ControlsNew,
                  after |-> MicrobeNew(1, 1, position.x, position.y, rotation)]

\* microbe.update(controls, delta_time) on the microbe as the last call left it
UpdateMicrobe(controls) ==
    /\ calls < MaxUpdates
    /\ upd' = [called |-> TRUE, before |-> upd.after, controls |-> controls,
               after |-> MicrobeUpdate(upd.after, controls)]
    /\ calls' = calls + 1
    /\ UNCHANGED <<qt, accepted, drained, fresh, ret, sense, tick, run, engine, ins>>

NextMicrobe == \E controls \in AllControls : UpdateMicrobe(controls)

SpecMicrobe == InitMicrobe /\ [][NextMicrobe]_vars

-----------------------------------------------------------------------------
(* One tick of the world.  Before it the index holds a population as an    *)
(* earlier tick or add_microbe left it; World::update is then called once. *)

\* where the microbes of the population are, and where they head: the first
\* faces the second and the third at distance 4, which face it; the fourth
\* faces the second and third from behind them and has the wall of the box
\* 1 behind itself
Roster ==
    << TransformNew(391 * LengthUnit, 0, 0),
       TransformNew(395 * LengthUnit, 0, PI),
       TransformNew(395 * LengthUnit, 0, PI),
       TransformNew(399 * LengthUnit, 0, PI) >>

\* energies of the microbes before the tick: one that a single bite brings
\* to exactly 0 (or below it, if the microbe eats), and two that a bite taken
\* lifts to just below and to exactly 2 * HEALTH
Energies == { 30 * EnergyUnit + 1, 170 * EnergyUnit + 1, 170 * EnergyUnit + 2 }

\* Controls that the scripts return
Decisions ==
    { ControlsNew,
      Controls(FALSE, FALSE, FALSE, FALSE, TRUE),
      Controls(TRUE, FALSE, TRUE, FALSE, FALSE),
      Controls(FALSE, TRUE, FALSE, TRUE, TRUE) }

\* what the evaluations of the scripts of a tick return: any of the Controls
\* each, or Err for one script or for all of them
Evaluations(ids) ==
    [ids -> { EvalOk(controls) : controls \in Decisions }]
    \cup { [id \in ids |-> IF id = bad THEN EvalErr ELSE EvalOk(ControlsNew)] : bad \in ids }
    \cup { [id \in ids |-> EvalErr] }

RECURSIVE Ascending(_)
\* the ids in ascending order
Ascending(ids) ==
    IF ids = {}
    THEN << >>
    ELSE LET least == CHOOSE id \in ids : \A other \in ids : id <= other
         IN  <<least>> \o Ascending(ids \ {least})

Reverse(s) == [i \in DOMAIN s |-> s[Len(s) + 1 - i]]

\* orders in which a HashMap of these ids is iterated
IterationOrders(ids) == { Ascending(ids), Reverse(Ascending(ids)) }

\* the microbes of the population: the k-th has id k, the place and heading
\* of the k-th chosen entry of the roster, and a lineage of its own, or, if
\* kin, the second has the lineage of the first (as offspring of one parent)
Seeded(chosen, energy, kin) ==
    [k \in DOMAIN chosen |->
        [MicrobeNew(k, IF kin /\ k = 2 THEN 1 ELSE k, Roster[chosen[k]].position.x,
                    Roster[chosen[k]].position.y, Roster[chosen[k]].rotation)
            EXCEPT !.energy = energy[k]]]

InitTick ==
    /\ \E members \in SUBSET DOMAIN Roster :
           /\ Cardinality(members) <= MaxPopulation
           /\ \E energy \in [1..Cardinality(members) -> Energies],
                 kin \in IF Cardinality(members) >= 2 THEN BOOLEAN ELSE {FALSE} :
                  LET seeded == Seeded(Ascending(members), energy, kin)
                      into == InsertAll([result |-> QuadTreeNew(WorldBounds, WorldCapacity),
                                         inserted |-> << >>, refused |-> << >>], seeded, 1)
                  IN  /\ qt = into.result
                      /\ accepted = into.inserted
                      /\ calls = Len(seeded)
    /\ fresh = qt
    /\ drained = FALSE
    /\ ret = Call("new", NoMicrobe, qt.bounds, TRUE, << >>)
    /\ sense = NoSense
    /\ tick = NoTick
    /\ upd = NoUpdate
    /\ run = NoRun
    /\ engine = NoEngine
    /\ ins = NoInsert

\* self.update(0.1), once
Tick ==
    /\ tick.status = "none"
    /\ LET ids == { accepted[i].id : i \in DOMAIN accepted }
       IN  \E evals \in Evaluations(ids), order \in IterationOrders(ids),
              order2 \in IterationOrders(ids) :
               \E u \in { WorldUpdate(qt, evals, order, order2, calls) } :
                   /\ qt' = u.world
                   /\ fresh' = u.world
                   /\ tick' = u.tick
                   /\ accepted' = u.inserted
                   /\ calls' = u.next_id
                   /\ drained' = (u.tick.status = "panicked")
    /\ UNCHANGED <<ret, sense, upd, run, engine, ins>>

NextTick == Tick

SpecTick == InitTick /\ [][NextTick]_vars

-----------------------------------------------------------------------------
(* One tick of the world, taken in steps: the population before it is as in *)
(* SpecTick, and World::update is called once and runs step by step.        *)

InitSteps == InitTick

\* Controls that the scripts return in a tick taken in steps: to eat, or to
\* turn right and go forward
StepDecisions ==
    { Controls(FALSE, FALSE, FALSE, FALSE, TRUE), Controls(TRUE, FALSE, TRUE, FALSE, FALSE) }

\* World::update is entered: the clone, take_items and the fold into
\* `microbes`, whose order of iteration is fixed from here on
UpdateBegin ==
    /\ run.pc = "idle"
    /\ tick.status = "none"
    /\ \E order \in IterationOrders({ accepted[i].id : i \in DOMAIN accepted }) :
           \E taken \in { QuadTreeTakeItems(qt) } :
               /\ run' = Begun(qt, taken, order, calls)
               /\ qt' = taken.tree
    /\ drained' = TRUE
    /\ UNCHANGED <<calls, accepted, fresh, ret, sense, tick, upd, engine, ins>>

\* the sensing calls for the microbe the loop is at (main.rs:215-312)
UpdateSense ==
    /\ run.pc = "sense"
    /\ run' = Sensed(run)
    /\ UNCHANGED <<qt, calls, accepted, drained, fresh, ret, sense, tick, upd, engine, ins>>

\* the closures are registered with the engine (main.rs:314-328)
UpdateRegister ==
    /\ run.pc = "register"
    /\ engine' = RegisterAll(engine, run.closures, 1)
    /\ run' = [run EXCEPT !.pc = "eval"]
    /\ UNCHANGED <<qt, calls, accepted, drained, fresh, ret, sense, tick, upd, ins>>

\* the script of the microbe is evaluated and what it returns is recorded,
\* or the call panics (main.rs:330-341)
UpdateEval ==
    /\ run.pc = "eval"
    /\ \E result \in { EvalOk(controls) : controls \in StepDecisions } \cup { EvalErr } :
           \E r \in { Evaluated(run, run.order[run.i], result, Observed(engine)) } :
               /\ run' = r
               /\ tick' = IF r.pc = "panicked"
                          THEN TickRecord("panicked", run.order[run.i], r.microbes, r.evals,
                                          << >>, << >>, NoCounts, << >>, << >>)
                          ELSE tick
    /\ UNCHANGED <<qt, calls, accepted, drained, fresh, ret, sense, upd, engine, ins>>

\* the eating resolution (main.rs:344-365)
UpdateResolve ==
    /\ run.pc = "resolve"
    /\ \E order2 \in IterationOrders(DOMAIN run.microbe_controls) :
           run' = Resolved(run, order2)
    /\ UNCHANGED <<qt, calls, accepted, drained, fresh, ret, sense, tick, upd, engine, ins>>

\* one iteration of the apply loop (main.rs:367-406)
UpdateApply ==
    /\ run.pc = "apply"
    /\ run.i <= Len(run.order)
    /\ run' = Applied(run)
    /\ UNCHANGED <<qt, calls, accepted, drained, fresh, ret, sense, tick, upd, engine, ins>>

\* self.microbes = result, and the call returns (main.rs:407-408)
UpdateCommit ==
    /\ run.pc = "apply"
    /\ run.i > Len(run.order)
    /\ run' = [run EXCEPT !.pc = "done"]
    /\ qt' = run.acc.result
    /\ accepted' = run.acc.inserted
    /\ calls' = run.acc.next_id
    /\ drained' = FALSE
    /\ tick' = TickRecord("committed", 0, run.microbes, run.evals, run.order,
                          run.microbe_controls, run.counts, run.acc.steps, run.acc.refused)
    /\ UNCHANGED <<fresh, ret, sense, upd, engine, ins>>

NextSteps ==
    \/ UpdateBegin
    \/ UpdateSense
    \/ UpdateRegister
    \/ UpdateEval
    \/ UpdateResolve
    \/ UpdateApply
    \/ UpdateCommit

SpecSteps == InitSteps /\ [][NextSteps]_vars

-----------------------------------------------------------------------------
(* QuadTree::insert call by call, on the index of World::new in a unit of   *)
(* 2^-21: its bounds halve exactly 26 times, and from the 17th quadrant on *)
(* the sums x + width at the far walls are no longer f32 numbers.  The      *)
(* capacity is any a caller of QuadTree::new may pass, 0 included.  An      *)
(* insert that is running goes on (QuadTreeNode::insert has no wait in it), *)
(* and the caller goes on inserting, as World::update does for every        *)
(* survivor.                                                                *)

\* the number of units of the insert taken in steps in 1.0
FineUnit == 2097152

\* Rect::new(-BOX_SIZE, -BOX_SIZE, BOX_SIZE * 2., BOX_SIZE * 2.)
FineBounds == RectNew(-400 * FineUnit, -400 * FineUnit, 800 * FineUnit, 800 * FineUnit)

\* locations offered to the insert taken in steps: the corner (x, y) of the
\* bounds, the far corner and a place by the right wall (where the walls of
\* the box put the microbes), and a place outside
FineLocations ==
    { PointNew(-400 * FineUnit, -400 * FineUnit), PointNew(400 * FineUnit, 400 * FineUnit),
      PointNew(399 * FineUnit, 0), PointNew(401 * FineUnit, 0) }

InitInsert ==
    \E capacity \in 0..MaxCapacity :
        /\ qt = QuadTreeNew(FineBounds, capacity)
        /\ fresh = QuadTreeNew(FineBounds, capacity)
        /\ calls = 0
        /\ accepted = << >>
        /\ drained = FALSE
        /\ ret = Call("new", NoItem, FineBounds, TRUE, << >>)
        /\ sense = NoSense
        /\ tick = NoTick
        /\ upd = NoUpdate
        /\ run = NoRun
        /\ engine = NoEngine
        /\ ins = NoInsert

\* tree.insert(create_item(..)) is called
InsertCall(p) ==
    /\ ins.pc \in {"idle", "done"}
    /\ calls < MaxInserts
    /\ ins' = Called(qt, CreateItem(calls + 1, p.x, p.y))
    /\ calls' = calls + 1
    /\ UNCHANGED <<qt, accepted, drained, fresh, ret, sense, tick, upd, run, engine>>

\* the innermost running call of QuadTreeNode::insert runs to its return or
\* to its call on a child; the model follows it while the halves are whole
InsertStep ==
    /\ ins.pc = "enter"
    /\ Halves(qt, ins) => HalvesExactly(NodeAt(qt, ins.path).bounds)
    /\ LET e == Entered(qt, ins)
       IN  /\ qt' = e.tree
           /\ ins' = e.call
           /\ accepted' = IF e.call.outcome \in {"stored", "dropped"}
                          THEN Append(accepted, ins.data)
                          ELSE accepted
           /\ ret' = IF e.call.pc = "done"
                     THEN Call("insert", ins.data, NoRect, e.call.outcome # "rejected", << >>)
                     ELSE ret
    /\ UNCHANGED <<calls, drained, fresh, sense, tick, upd, run, engine>>

NextInsert ==
    \/ \E p \in FineLocations : InsertCall(p)
    \/ InsertStep

SpecInsert == InitInsert /\ [][NextInsert]_vars /\ WF_vars(NextInsert)

-----------------------------------------------------------------------------
(* Helpers of the properties *)

Range(s) == { s[i] : i \in DOMAIN s }

\* every element of s occurs in s exactly once
NoDuplicates(s) == \A i, j \in DOMAIN s : s[i] = s[j] => i = j

RECURSIVE Nodes(_)
\* the nodes of a tree, at every depth
Nodes(node) ==
    {node} \cup UNION { Nodes(node.children[i]) : i \in DOMAIN node.children }

\* model sanity: every rectangle that was halved had an even width and height
HalvingExact ==
    \A n \in Nodes(qt) :
        n.children # NoChildren =>
            /\ 2 * Half(n.bounds.width) = n.bounds.width
            /\ 2 * Half(n.bounds.height) = n.bounds.height

\* s and t hold the same elements the same number of times
SameBag(s, t) ==
    /\ Len(s) = Len(t)
    /\ \A v \in Range(s) \cup Range(t) :
           Cardinality({ i \in DOMAIN s : s[i] = v }) = Cardinality({ i \in DOMAIN t : t[i] = v })

\* x0 <= px <= x0 + width and y0 <= py <= y0 + height
Within(p, x0, y0, width, height) ==
    /\ x0 <= p.x /\ p.x <= x0 + width
    /\ y0 <= p.y /\ p.y <= y0 + height

WithinRect(p, r) == Within(p, r.x, r.y, r.width, r.height)

\* the tree has a node two levels below the root that holds an item
DeepItem(tree) ==
    /\ tree.children # NoChildren
    /\ \E i \in 1..4 :
           /\ tree.children[i].children # NoChildren
           /\ \E j \in 1..4 : Len(tree.children[i].children[j].items) > 0

-----------------------------------------------------------------------------
(* Properties of the quadtree, checked under Spec *)

C2_InsertBounds ==
    [][ret'.op = "insert" =>
            IF WithinRect(ret'.data.location, qt.bounds)
            THEN ret'.ok
            ELSE ~ret'.ok /\ qt' = qt]_vars

\* an insert outside the root was refused by a tree that is subdivided
C2_Witness ==
    /\ ret.op = "insert"
    /\ ~ret.ok
    /\ qt.children # NoChildren
    /\ Len(accepted) > qt.capacity

\* C3: after any sequence of insert, take_items and query calls, every item
\* stored directly in any node, at any depth, has a location contained in
\* that node's own bounds and in the root bounds.
C3_Containment ==
    \A n \in Nodes(qt) :
        \A i \in DOMAIN n.items :
            /\ WithinRect(n.items[i].location, n.bounds)
            /\ WithinRect(n.items[i].location, RootBounds)

\* items are stored two levels below the root, after a take_items
C3_Witness ==
    /\ DeepItem(qt)
    /\ drained

\* C4: in a freshly created tree with capacity c the root has no children
\* after the first c in-bounds inserts and exactly four children (NW, NE, SW,
\* SE, each with half the parent's width and height) after the (c+1)-th; and
\* a query rectangle that contains all N > c inserted points returns all N.
C4_Subdivision ==
    LET b == qt.bounds
        n == Len(accepted)
    IN  /\ (~drained /\ n <= qt.capacity) => qt.children = NoChildren
        /\ (~drained /\ n > qt.capacity) =>
               /\ Len(qt.children) = 4
               /\ \A i \in 1..4 :
                      /\ 2 * qt.children[i].bounds.width = b.width
                      /\ 2 * qt.children[i].bounds.height = b.height
               /\ qt.children[1].bounds.x = b.x
               /\ qt.children[1].bounds.y = b.y
               /\ 2 * qt.children[2].bounds.x = 2 * b.x + b.width
               /\ qt.children[2].bounds.y = b.y
               /\ qt.children[3].bounds.x = b.x
               /\ 2 * qt.children[3].bounds.y = 2 * b.y + b.height
               /\ 2 * qt.children[4].bounds.x = 2 * b.x + b.width
               /\ 2 * qt.children[4].bounds.y = 2 * b.y + b.height
        /\ (/\ ret.op = "query"
            /\ n > qt.capacity
            /\ \A i \in 1..n : WithinRect(accepted[i].location, ret.rect))
               => Len(ret.result) = n

\* more than capacity clustered points were inserted into a fresh tree and a
\* box smaller than a quadrant, containing them all, was queried
C4_Witness ==
    /\ ~drained
    /\ ret.op = "query"
    /\ 2 * ret.rect.width < qt.bounds.width
    /\ Len(accepted) > qt.capacity
    /\ \A i \in 1..Len(accepted) : WithinRect(accepted[i].location, ret.rect)

C6_Drain ==
    [][/\ ret'.op = "take_items" =>
              /\ SameBag(ret'.result, QuadTreeItems(qt))
              /\ QuadTreeItems(qt') = << >>
              /\ \A rect \in QueryRects : QuadTreeQuery(qt', rect) = << >>
              /\ qt'.bounds = qt.bounds
              /\ qt'.capacity = qt.capacity
       /\ drained' =>
              /\ Range(QuadTreeItems(qt')) = Range(QuadTreeItems(fresh'))
              /\ \A rect \in QueryRects :
                     Range(QuadTreeQuery(qt', rect)) = Range(QuadTreeQuery(fresh', rect))
              /\ (drained /\ ret'.op = "insert") =>
                     ret'.ok = QuadTreeInsert(fresh, ret'.data).ok]_vars

\* a subdivided tree was drained and has accepted an item since, while the
\* tree created anew is not subdivided
C6_Witness ==
    /\ drained
    /\ qt.children # NoChildren
    /\ fresh.children = NoChildren
    /\ Len(accepted) >= 1

-----------------------------------------------------------------------------
(* Properties of sensing, checked under SpecSense *)

\* the microbes in the index
Population == Range(accepted)

\* the squared distance of microbe m from the sensing position
Distance2(m) ==
    (m.transform.position.x - sense.position.x) * (m.transform.position.x - sense.position.x)
    + (m.transform.position.y - sense.position.y) * (m.transform.position.y - sense.position.y)

\* m passes the angular test of the sensing call
InCone(m) ==
    Abs(Atan2(m.transform.position.y - sense.position.y,
              m.transform.position.x - sense.position.x) - sense.angle) % (2 * PI)
        < (PI * 4) \div 10

\* m lies straight ahead of an observer with heading 0, at distance d
AheadAt(m, d) ==
    /\ sense.heading = 0
    /\ m.transform.position.y = sense.position.y
    /\ m.transform.position.x = sense.position.x + d

\* C7: no agent returned by get_nearby_microbes has the caller's id or the
\* caller's lineage, whatever its distance or angle; so no agent is in its
\* own forward-close target list, nor is any agent of its own lineage.
C7_SensingExclusion ==
    \A i \in DOMAIN sense.result :
        /\ sense.result[i].id # sense.id
        /\ sense.result[i].lineage # sense.lineage

\* a microbe sensed forward at close range while another microbe of its own
\* lineage was 4 straight ahead of it
C7_Witness ==
    /\ sense.kind = "update"
    /\ sense.direction = "forward"
    /\ sense.range = DETECT_RANGE_CLOSE
    /\ \E m \in Population :
           /\ m.id # sense.id
           /\ m.lineage = sense.lineage
           /\ AheadAt(m, 4 * LengthUnit)

\* C8: the bounding-box query is a superset prune of the exact range test:
\* the result is exactly the set of agents of another id and lineage within
\* distance <= range that pass the angular cone test.
C8_BoxIsSupersetPrune ==
    sense.kind # "none" =>
        Range(sense.result) =
            { m \in Population :
                  /\ m.id # sense.id
                  /\ m.lineage # sense.lineage
                  /\ Distance2(m) <= sense.range * sense.range
                  /\ InCone(m) }

\* C9: for an observer with heading 0, an agent of another lineage straight
\* ahead at any distance d < range is counted by the forward sensing call
\* and not by the left, right or back calls, for the close and the far range.
C9_AheadOnlyForward ==
    (sense.kind = "update" /\ sense.heading = 0) =>
        \A m \in Population :
            (/\ m.lineage # sense.lineage
             /\ \E d \in 1..(sense.range - 1) : AheadAt(m, d))
                => (m \in Range(sense.result) <=> sense.direction = "forward")

\* C10: in the index of the test, each agent inserted at (1,0), (-1,0),
\* (0,1), (0,-1) is detected from the origin with range 10 along its own
\* bearing 0, pi, pi/2, -pi/2.
C10_TestDetects ==
    sense.kind = "test" => sense.target \in Range(sense.result)

-----------------------------------------------------------------------------
(* Properties of Microbe::update, checked under SpecMicrobe *)

\* C18: after every application of a Decision (Microbe::update), for every
\* combination of turn_left and turn_right and every starting heading in
\* [0, 2 PI), the heading lies in [0, 2 PI); hence after any number of
\* ticks the heading of every agent lies in [0, 2 PI).
C18_HeadingInRange ==
    (upd.called /\ 0 <= upd.before.transform.rotation
                /\ upd.before.transform.rotation < 2 * PI)
        => /\ 0 <= upd.after.transform.rotation
           /\ upd.after.transform.rotation < 2 * PI

\* C20: action energy is charged only for acting and not for turning: a
\* Decision with only right and/or left set (or every flag false) leaves the
\* energy unchanged by Microbe::update, while a Decision with forward, back
\* or eat set deducts ACTION_ENERGY_CONSUMPTION for the action.
C20_TurningIsFree ==
    upd.called =>
        IF upd.controls.forward \/ upd.controls.back \/ upd.controls.eat
        THEN upd.after.energy <= upd.before.energy - ACTION_ENERGY_CONSUMPTION
        ELSE upd.after.energy = upd.before.energy

\* the position a microbe at `transform` has after `steps` steps of length
\* SPEED along its heading (steps = -1: one step backwards)
Moved(transform, steps) ==
    Vector2(transform.position.x + steps * StepX(transform.rotation, SPEED),
            transform.position.y + steps * StepY(transform.rotation, SPEED))

\* C27: applying a Decision resolves conflicting intents: with forward and
\* back both set only the forward move is made (the position changes by
\* SPEED along the heading, never by nothing); with right and left both set
\* the heading is unchanged; and the move is along the heading as it was
\* before the turn of the same update.
C27_ConflictingIntents ==
    upd.called =>
        /\ upd.controls.forward =>
               /\ upd.after.transform.position = Moved(upd.before.transform, 1)
               /\ upd.after.transform.position # upd.before.transform.position
        /\ (~upd.controls.forward /\ upd.controls.back) =>
               upd.after.transform.position = Moved(upd.before.transform, -1)
        /\ (~upd.controls.forward /\ ~upd.controls.back) =>
               upd.after.transform.position = upd.before.transform.position
        /\ (upd.controls.right /\ upd.controls.left) =>
               upd.after.transform.rotation = upd.before.transform.rotation

\* a microbe that does not head along an axis was told to go forward and
\* back and to turn right and left, all at once
C27_Witness ==
    /\ upd.called
    /\ upd.controls.forward /\ upd.controls.back
    /\ upd.controls.right /\ upd.controls.left
    /\ upd.before.transform.rotation % (PI \div 2) # 0

-----------------------------------------------------------------------------
(* Properties of the tick, checked under SpecTick *)

\* the last call of World::update ran to its end
Committed == tick.status = "committed"

\* the ids of the microbes the tick read
Ids == DOMAIN tick.microbes

\* the Decision of the microbe has eat set
Eats(id) == tick.microbe_controls[id].controls.eat

\* prey is in the forward-close target list of attacker
CanEat(attacker, prey) ==
    \E i \in DOMAIN tick.microbe_controls[attacker].edible_ids :
        tick.microbe_controls[attacker].edible_ids[i] = prey

\* the energy of the microbe before the tick
Energy(id) == tick.microbes[id].energy

\* the step of the apply loop for the microbe
StepOf(id) == tick.steps[CHOOSE i \in DOMAIN tick.order : tick.order[i] = id]

\* a and b both eat and each has the other in its target list
InCombat(a, b) == Eats(a) /\ Eats(b) /\ CanEat(a, b) /\ CanEat(b, a)

\* C11: when two agents that both decide to eat have each other in their
\* forward-close target lists, the one of strictly greater pre-tick energy
\* eats the other: the pair adds one to its ateCount and one to the other's
\* eatenCount, and nothing to the other's ateCount or its own eatenCount;
\* at equal energies the pair adds nothing.  So the eatenCount of an agent
\* that eats is the number of eating attackers of strictly greater energy
\* that target it, and the ateCount of an agent is the number of its
\* targets that do not eat or that eat and have strictly less energy.
C11_MutualCombat ==
    Committed =>
        \A a \in Ids :
            /\ Eats(a) =>
                   /\ tick.eaten[a] =
                          Cardinality({ b \in Ids :
                                            Eats(b) /\ CanEat(b, a) /\ Energy(b) > Energy(a) })
                   /\ tick.ate[a] =
                          Cardinality({ b \in Ids :
                                            CanEat(a, b) /\ (Eats(b) => Energy(a) > Energy(b)) })
            /\ \A b \in Ids :
                   (InCombat(a, b) /\ Energy(a) >= Energy(b)
                    /\ \A c \in Ids \ {a, b} : ~CanEat(c, a) /\ ~CanEat(c, b) /\ ~CanEat(b, c))
                       => /\ tick.eaten[a] = 0
                          /\ tick.ate[b] = 0
                          /\ tick.eaten[b] = IF Energy(a) > Energy(b) THEN 1 ELSE 0

\* one microbe was in combat with two: with one of less energy, which it ate,
\* and with one of its own energy
C11_Witness ==
    /\ Committed
    /\ \E a, b, c \in Ids :
           /\ InCombat(a, b) /\ Energy(a) > Energy(b)
           /\ InCombat(a, c) /\ Energy(a) = Energy(c)
           /\ tick.ate[a] = 1
           /\ tick.eaten[b] = 1

\* C12: an agent that eats consumes every agent of its forward-close target
\* list that does not eat, whatever their energies: each such pair adds one
\* to the eatenCount of the prey and one to the ateCount of the attacker.
\* The counts accumulate over the pairs: prey that does not eat ends with
\* an eatenCount of the number of eating agents that target it, and an
\* attacker none of whose targets eats ends with an ateCount of the number
\* of its targets.
C12_PreyConsumed ==
    Committed =>
        \A p \in Ids :
            /\ ~Eats(p) =>
                   /\ tick.eaten[p] = Cardinality({ a \in Ids : Eats(a) /\ CanEat(a, p) })
                   /\ tick.ate[p] = 0
            /\ Eats(p) =>
                   /\ tick.ate[p] >= Cardinality({ q \in Ids : CanEat(p, q) /\ ~Eats(q) })
                   /\ (\A q \in Ids : CanEat(p, q) => ~Eats(q))
                          => tick.ate[p] = Len(tick.microbe_controls[p].edible_ids)

\* prey of more energy than either of its two attackers was eaten by both
C12_Witness ==
    /\ Committed
    /\ \E a, b, p \in Ids :
           /\ a # b
           /\ ~Eats(p) /\ Eats(a) /\ Eats(b)
           /\ CanEat(a, p) /\ CanEat(b, p)
           /\ Energy(p) > Energy(a) /\ Energy(p) > Energy(b)
           /\ tick.eaten[p] = 2

\* C13: in the apply phase an agent with an ateCount of k > 0 receives the
\* reward EAT_DAMAGE exactly once, not k times; an agent with an ateCount
\* of 0 receives none; an agent with an eatenCount of k loses exactly
\* k * EAT_DAMAGE; the two adjustments are independent of each other.
C13_RewardOnceDamagePerBite ==
    Committed =>
        \A id \in Ids :
            StepOf(id).applied.energy =
                StepOf(id).updated.energy
                + (IF tick.ate[id] > 0 THEN EAT_DAMAGE ELSE 0)
                - tick.eaten[id] * EAT_DAMAGE

\* a microbe that ate two was rewarded once, and one it ate was damaged once
C13_Witness ==
    /\ Committed
    /\ \E id, prey \in Ids :
           /\ tick.ate[id] = 2
           /\ StepOf(id).applied.energy = StepOf(id).updated.energy + EAT_DAMAGE
           /\ CanEat(id, prey)
           /\ tick.eaten[prey] = 1
           /\ StepOf(prey).applied.energy = StepOf(prey).updated.energy - EAT_DAMAGE

\* the microbes that `result` was given in the tick: offspring and parents
Inserted == UNION { Range(tick.steps[i].inserts) : i \in DOMAIN tick.steps }

\* the offspring created in the tick
AllOffspring == UNION { Range(tick.steps[i].children) : i \in DOMAIN tick.steps }

\* the offspring of a reproducing agent are exactly 4, and the identifier of
\* each differs from that of every other agent, before and after the tick
FourOffspringOfNewId ==
    \A id \in Ids :
        LET children == StepOf(id).children
        IN  children # << >> =>
                /\ Len(children) = 4
                /\ \A k \in DOMAIN children :
                       /\ children[k].id \notin Ids
                       /\ \A other \in Inserted :
                              other.id = children[k].id => other = children[k]
                       /\ \A j \in DOMAIN children : children[j].id = children[k].id => j = k

C15_ReproductionThreshold ==
    Committed =>
        \A id \in Ids :
            LET step == StepOf(id)
            IN  /\ step.children # << >> <=> step.applied.energy >= 2 * HEALTH
                /\ step.children # << >> =>
                       /\ step.parent.energy = step.applied.energy - HEALTH
                       /\ \A k \in DOMAIN step.children :
                              4 * step.children[k].energy = HEALTH
                /\ step.children = << >> => step.parent.energy = step.applied.energy
                /\ Cardinality({ i \in DOMAIN tick.steps : tick.steps[i].id = id }) = 1
                /\ Len(step.children) \in {0, 4}

\* a microbe whose energy after the apply phase was exactly 2 * HEALTH
\* procreated, and one whose energy was a thousandth less did not
C15_Witness ==
    /\ Committed
    /\ \E a, b \in Ids :
           /\ StepOf(a).applied.energy = 2 * HEALTH
           /\ StepOf(a).children # << >>
           /\ StepOf(a).parent.energy = HEALTH
           /\ StepOf(b).applied.energy = 2 * HEALTH - 1
           /\ StepOf(b).children = << >>

\* the agents of before the tick whose energy after the apply phase and
\* reproduction is positive, as the tick left them
Survivors == { StepOf(id).parent : id \in { i \in Ids : StepOf(i).parent.energy > 0 } }

\* C16: the population committed by a tick is exactly every pre-tick agent
\* whose energy after the apply phase and reproduction is > 0 (each once,
\* with its identifier unchanged) together with all offspring created in
\* the tick; agents whose resulting energy is <= 0 are absent; no survivor
\* and no offspring is lost when inserted into the next-tick index.
C16_CommittedPopulation ==
    Committed =>
        LET items == QuadTreeItems(qt)
        IN  /\ NoDuplicates(items)
            /\ Range(items) = Survivors \cup AllOffspring
            /\ Len(items) = Cardinality({ i \in Ids : StepOf(i).parent.energy > 0 })
                             + 4 * Cardinality({ i \in Ids : StepOf(i).children # << >> })
            /\ \A id \in Ids :
                   /\ StepOf(id).parent.id = id
                   /\ StepOf(id).parent.energy <= 0 =>
                          \A i \in DOMAIN items : items[i].id # id
            /\ tick.refused = << >>

\* of three microbes one died, one procreated and one only survived
C16_Witness ==
    /\ Committed
    /\ \E a, b, c \in Ids :
           /\ StepOf(a).parent.energy <= 0
           /\ StepOf(b).children # << >>
           /\ StepOf(c).children = << >> /\ StepOf(c).parent.energy > 0
    /\ Len(QuadTreeItems(qt)) = 6

\* v lies in [-BOX_SIZE, BOX_SIZE]
InBox(v) == -BOX_SIZE <= v /\ v <= BOX_SIZE

\* v, if moved beyond the box, is brought to the side it went beyond
Clamped(moved, v) ==
    /\ moved > BOX_SIZE => v = BOX_SIZE
    /\ moved < -BOX_SIZE => v = -BOX_SIZE
    /\ InBox(moved) => v = moved

\* C17: after every tick both position components of every agent lie in
\* [-BOX_SIZE, BOX_SIZE]; an agent whose movement would carry it beyond
\* the half-extent ends exactly at +-BOX_SIZE; positions are clamped before
\* the insertion into the next-tick index, so no insertion is refused as
\* out of bounds.
C17_ClampedToBox ==
    Committed =>
        /\ \A m \in Range(QuadTreeItems(qt)) \cup Inserted :
               InBox(m.transform.position.x) /\ InBox(m.transform.position.y)
        /\ \A id \in Ids :
               /\ Clamped(StepOf(id).updated.transform.position.x,
                          StepOf(id).parent.transform.position.x)
               /\ Clamped(StepOf(id).updated.transform.position.y,
                          StepOf(id).parent.transform.position.y)
        /\ tick.refused = << >>

\* a microbe moved beyond the box and is in the index on the side of the box
C17_Witness ==
    /\ Committed
    /\ \E i \in DOMAIN accepted :
           /\ accepted[i].id \in Ids
           /\ StepOf(accepted[i].id).updated.transform.position.x > BOX_SIZE
           /\ accepted[i].transform.position.x = BOX_SIZE
           /\ accepted[i] \in Range(QuadTreeItems(qt))

\* the evaluation of the script of some agent failed in the last tick
SomeEvalFailed == \E id \in DOMAIN tick.evals : ~tick.evals[id].ok

\* C19: if the behavior script of any agent fails to evaluate during a tick,
\* the whole simulation aborts: the tick ends in a panic at that agent,
\* commits no next population and no later tick runs; the failure is not
\* turned into an all-false Decision of that agent.
C19_ScriptFailureAborts ==
    /\ SomeEvalFailed =>
           /\ tick.status = "panicked"
           /\ tick.failed \in Ids /\ ~tick.evals[tick.failed].ok
           /\ tick.microbe_controls = << >>
           /\ tick.steps = << >>
           /\ QuadTreeItems(qt) = << >>
           /\ accepted = << >>
    /\ tick.status = "panicked" => SomeEvalFailed

\* of a population of three, the script of one failed and the others' did not
C19_Witness ==
    /\ tick.status = "panicked"
    /\ Cardinality(Ids) = 3
    /\ Cardinality({ id \in Ids : tick.evals[id].ok }) = 2

RECURSIVE Total(_, _)
\* the sum of the counts of the ids
Total(count, ids) ==
    IF ids = {}
    THEN 0
    ELSE LET id == CHOOSE one \in ids : TRUE
         IN  count[id] + Total(count, ids \ {id})

\* the interactions that count: the eater has decided to eat, the eaten is in
\* its forward-close target list, and does not eat or has less energy
Bites ==
    { pair \in Ids \X Ids :
          /\ Eats(pair[1])
          /\ CanEat(pair[1], pair[2])
          /\ Eats(pair[2]) => Energy(pair[1]) > Energy(pair[2]) }

\* C26: in every tick, after the eating resolution, the sum of the ateCount
\* over all agents equals the sum of the eatenCount over all agents; the
\* counts are those of interactions between an eater that decided eat = true
\* and an agent of its forward-close target list, and each of these
\* interactions is between two distinct agents of different lineage.
C26_CountsBalance ==
    Committed =>
        /\ Total(tick.ate, Ids) = Total(tick.eaten, Ids)
        /\ Total(tick.ate, Ids) = Cardinality(Bites)
        /\ \A id \in Ids :
               /\ tick.ate[id] = Cardinality({ pair \in Bites : pair[1] = id })
               /\ tick.eaten[id] = Cardinality({ pair \in Bites : pair[2] = id })
        /\ \A pair \in Bites :
               /\ pair[1] # pair[2]
               /\ tick.microbes[pair[1]].lineage # tick.microbes[pair[2]].lineage

\* a microbe ate one of two microbes that were at one place ahead of it, and
\* not the other one, which is of its own lineage
C26_Witness ==
    /\ Committed
    /\ \E a, kin, prey \in Ids :
           /\ a # kin
           /\ tick.microbes[a].lineage = tick.microbes[kin].lineage
           /\ tick.microbes[kin].transform.position = tick.microbes[prey].transform.position
           /\ <<a, prey>> \in Bites
           /\ <<a, kin>> \notin Bites
           /\ tick.ate[a] = 1
           /\ tick.eaten[prey] = 1
           /\ tick.eaten[kin] = 0

\* the energy is above 0 and below 2 * HEALTH
Viable(microbe) == 0 < microbe.energy /\ microbe.energy < HEALTH + HEALTH

\* C25: if every agent of the population has an energy above 0 and below
\* 2 * HEALTH before a tick, every agent of the population the tick commits
\* has one too (so it is after any number of ticks): a reproducing parent
\* survives its own reproduction, and no agent is stored with an energy of 0
\* or less.
C25_EnergyInRange ==
    /\ \A microbe \in Range(NodeItems(qt)) : Viable(microbe)
    /\ Committed =>
           /\ \A id \in Ids : Viable(tick.microbes[id])
           /\ Range(NodeItems(qt)) = Inserted
           /\ \A id \in Ids :
                  /\ StepOf(id).children # << >> =>
                         /\ StepOf(id).parent \in Range(NodeItems(qt))
                         /\ \A i \in 1..4 : StepOf(id).children[i] \in Range(NodeItems(qt))
                  /\ StepOf(id).parent.energy <= 0 =>
                         \A microbe \in Range(NodeItems(qt)) : microbe.id # id

\* in one tick a microbe reproduced and was stored, with HEALTH to it, one
\* that was left with an energy of exactly 0 was not stored, nor one that was
\* left with less
C25_Witness ==
    /\ Committed
    /\ \E a, b, c \in Ids :
           /\ StepOf(a).children # << >>
           /\ StepOf(a).parent.energy = HEALTH
           /\ StepOf(a).parent \in Range(NodeItems(qt))
           /\ StepOf(b).parent.energy = 0
           /\ StepOf(c).parent.energy < 0
           /\ \A microbe \in Range(NodeItems(qt)) : microbe.id # b /\ microbe.id # c

\* the microbes with the ids of all but the microbes of `ids` blanked: the
\* offspring of a tick, whose ids are fresh
Anonymous(microbes, ids) ==
    { [microbe EXCEPT !.id = IF @ \in ids THEN @ ELSE 0] : microbe \in microbes }

\* the number of offspring of each microbe in the steps of an apply loop
OffspringCount(steps, ids) ==
    [id \in ids |->
        Len(steps[CHOOSE i \in DOMAIN steps : steps[i].id = id].children)]

\* what a tick comes to: the counts of the eating resolution, the number of
\* offspring of each microbe, and the population it commits
Outcome(record, world) ==
    [status |-> record.status,
     ate |-> record.ate,
     eaten |-> record.eaten,
     offspring |-> OffspringCount(record.steps, DOMAIN record.microbes),
     size |-> Len(NodeItems(world)),
     population |-> Anonymous(Range(NodeItems(world)), DOMAIN record.microbes)]

\* C24: the outcome of a tick does not depend on the order of iteration:
\* for the same population and the same Decision of each agent, every order
\* of the decision map in the eating resolution and of the working map in
\* the apply loop gives the same ateCount and eatenCount of every agent and
\* the same committed population (the same surviving agents with the same
\* position, heading and energy, and the same number of offspring of each
\* parent, up to the fresh ids of the offspring).  The tick taken, in
\* whatever order, comes to what the tick in ascending order comes to.
C24_OrderIndependent ==
    [][tick'.status = "committed" =>
           \E u \in { WorldUpdate(qt, tick'.evals, Ascending(DOMAIN tick'.microbes),
                                  Ascending(DOMAIN tick'.microbes), calls) } :
               Outcome(u.tick, u.world) = Outcome(tick', qt')]_vars

\* a tick of three microbes applied in descending order: the third ate the
\* second and reproduced, the second ate the first, which died
C24_Witness ==
    /\ Committed
    /\ tick.order = <<3, 2, 1>>
    /\ tick.ate[3] = 1 /\ tick.eaten[2] = 1
    /\ tick.ate[2] = 1 /\ tick.eaten[1] = 1
    /\ StepOf(3).children # << >>
    /\ StepOf(1).inserts = << >>
    /\ Len(NodeItems(qt)) = 6

-----------------------------------------------------------------------------
(* Properties of the tick taken in steps, checked under SpecSteps *)

\* the population before the tick, by id
PreTick == MicrobesById(NodeItems(run.before))

\* the ids of the microbes whose scripts have been evaluated
Evaluated_ids == DOMAIN run.observed

\* the Decision recorded for the microbe has eat set
Bites_eat(id) == run.microbe_controls[id].controls.eat

\* prey is in the target list recorded for the attacker
Targets(attacker, prey) ==
    \E i \in DOMAIN run.microbe_controls[attacker].edible_ids :
        run.microbe_controls[attacker].edible_ids[i] = prey

\* the attacker consumes the prey, going by their energies before the tick
Consumes(attacker, prey) ==
    /\ Bites_eat(attacker)
    /\ Targets(attacker, prey)
    /\ Bites_eat(prey) => PreTick[attacker].energy > PreTick[prey].energy

\* C21: within a tick there is a strict barrier and a frozen sensing
\* substrate.  The sensing counts and the forward-close target list of
\* every agent are computed from the population as it was before the tick;
\* the Decide phase changes no agent of the working set; no movement, energy
\* change, reproduction or death is applied to any agent, and no eating is
\* resolved, before the Decision of every agent has been recorded; the
\* eating resolution compares the energies of before the tick, and the
\* apply loop starts from every agent as it was before the tick.
C21_StrictBarrier ==
    run.pc # "idle" =>
        /\ run.frozen = run.before
        /\ run.microbes = PreTick
        /\ run.pc \in {"register", "eval"} =>
               /\ run.closures = Closures(run.before, PreTick[run.order[run.i]])
               /\ run.edible_ids = EdibleIds(run.before, PreTick[run.order[run.i]])
        /\ \A id \in DOMAIN run.microbe_controls :
               run.microbe_controls[id].edible_ids = EdibleIds(run.before, PreTick[id])
        /\ run.pc \in {"sense", "register", "eval", "panicked"} =>
               /\ run.counts = NoCounts
               /\ run.acc.steps = << >>
               /\ run.acc.inserted = << >>
               /\ NodeItems(qt) = << >>
        /\ (run.pc \in {"apply", "done"} \/ run.counts # NoCounts \/ run.acc.steps # << >>) =>
               /\ DOMAIN run.microbe_controls = DOMAIN PreTick
               /\ \A id \in DOMAIN PreTick :
                      /\ run.counts.ate[id] =
                             Cardinality({ prey \in DOMAIN PreTick : Consumes(id, prey) })
                      /\ run.counts.eaten[id] =
                             Cardinality({ attacker \in DOMAIN PreTick : Consumes(attacker, id) })
               /\ \A k \in DOMAIN run.acc.steps :
                      run.acc.steps[k].updated =
                          MicrobeUpdate(PreTick[run.acc.steps[k].id],
                                        run.microbe_controls[run.acc.steps[k].id].controls)

\* a microbe had another in its target list and ate it; the apply loop has
\* moved and turned the one eaten, and has left it with less energy than
\* its eater had, though it had more before the tick
C21_Witness ==
    /\ run.pc = "done"
    /\ \E a, b \in DOMAIN PreTick :
           /\ Consumes(a, b)
           /\ ~Bites_eat(b)
           /\ PreTick[b].energy > PreTick[a].energy
           /\ \E k \in DOMAIN run.acc.steps :
                  /\ run.acc.steps[k].id = b
                  /\ run.acc.steps[k].updated.transform # PreTick[b].transform
                  /\ run.acc.steps[k].applied.energy < PreTick[a].energy

\* a tick taken in steps comes to what World::update comes to as a whole
StepsAgreeWithUpdate ==
    run.pc \in {"done", "panicked"} =>
        \E u \in { WorldUpdate(run.before, [id \in DOMAIN PreTick |->
                                                IF id \in DOMAIN run.evals
                                                THEN run.evals[id]
                                                ELSE EvalErr],
                                run.order, run.order2, Cardinality(DOMAIN PreTick)) } :
            /\ u.world = qt
            /\ u.tick.status = tick.status
            /\ u.tick.failed = tick.failed
            /\ tick.status = "committed" => u.tick = tick /\ u.inserted = accepted

\* C22: with the one engine of the world, whose functions are registered
\* anew before every evaluation, the evaluation of the script of an agent
\* observes the eight sensing counts and the energy of that agent, computed
\* on the population as it was before the tick, and never the values of an
\* agent evaluated before or after it: when the script is evaluated, every
\* function of the engine is the closure made for that agent.
C22_EvaluationObservesOwn ==
    /\ \A id \in Evaluated_ids : run.observed[id] = Closures(run.before, PreTick[id])
    /\ run.pc = "eval" =>
           \A i \in DOMAIN FnNames :
               /\ engine[FnNames[i]].registered
               /\ engine[FnNames[i]].value = run.closures[FnNames[i]]

\* the scripts of two microbes were evaluated one after the other in one
\* tick, and the engine returned another energy, another count of the
\* microbes close ahead and another count of the microbes behind to the
\* second than to the first
C22_Witness ==
    /\ run.pc = "done"
    /\ \E a, b \in Evaluated_ids :
           /\ a # b
           /\ run.observed[a].energy # run.observed[b].energy
           /\ run.observed[a].sense_front_close # run.observed[b].sense_front_close
           /\ run.observed[a].sense_back # run.observed[b].sense_back

-----------------------------------------------------------------------------
(* Properties of the insert taken in steps, checked under SpecInsert *)

\* the insert that has returned was given an item inside the bounds of the root
InBounds == ContainsPoint(qt.bounds, Location(ins.data))

\* the item of the insert lies on the corner (x, y) of the bounds of the root,
\* which is the corner (x, y) of every first quadrant below it
OnCorner == Location(ins.data) = PointNew(qt.bounds.x, qt.bounds.y)

\* model sanity: with a capacity of 1 or more, the insert taken in steps
\* leaves the tree that NodeInsert computes, and returns what it returns
StepsAgreeWithInsert ==
    (ins.pc = "done" /\ ret.op = "insert" /\ qt.capacity >= 1) =>
        LET r == QuadTreeInsert(ins.before, ins.data)
        IN  /\ qt = r.tree
            /\ ret.ok = r.ok

Before(p, q) ==
    \E k \in 0..Len(p) :
        /\ k <= Len(q)
        /\ SubSeq(p, 1, k) = SubSeq(q, 1, k)
        /\ \/ k = Len(p) /\ Len(q) > k
           \/ k < Len(p) /\ k < Len(q) /\ p[k + 1] < q[k + 1]

SamePlaceStored ==
    /\ qt.capacity = 1
    /\ ins.pc = "done"
    /\ ins.outcome = "stored"
    /\ Len(ins.path) = 3
    /\ \A i \in DOMAIN accepted : Location(accepted[i]) = Location(ins.data)

====
